---- MODULE Spec2Model ----
(***************************************************************************)
(* rmbloat job supervision: the process monitor (FfmpegMon) that frames a  *)
(* child's non-blocking error stream into log lines, progress snapshots    *)
(* and an exit code, and the JobHandler that polls it, detects stalls and  *)
(* walks the retry ladder.                                                 *)
(*                                                                         *)
(* Text is modelled at byte level.  A byte is a string token: an ASCII     *)
(* byte is its one-character string, a byte >= 0x80 is "xHH".  A decoded   *)
(* str is a sequence of characters (one-character strings, or "U+HHHH"     *)
(* for a non-ASCII code point).  Optional values (None or a value) are     *)
(* sequences of length 0 or 1.                                             *)
(***************************************************************************)
EXTENDS Integers, Sequences, FiniteSets, TLC

\* ------------------------------------------------------------------ text

LF == "\n"

\* Whitespace removed by bytes.strip() and str.strip() (the part of it the
\* modelled alphabet contains).
WS == {" ", "\t", "\r"}

Digits == {"0", "1", "2", "3", "4", "5", "6", "7", "8", "9"}

\* Bytes >= 0x80 of the modelled alphabet: xC3 xA9 is the UTF-8 encoding of
\* U+00E9; xFF is never valid in UTF-8.
LeadBytes == {"xC3"}
ContBytes == {"xA9"}
HighBytes == {"xC3", "xA9", "xFF"}

\* bytes.decode('utf-8', errors='ignore'): a well-formed sequence becomes its
\* code point, a byte that is not part of one is dropped.
RECURSIVE decode(_)
decode(b) ==
    IF b = <<>> THEN <<>>
    ELSE IF b[1] \in LeadBytes /\ Len(b) >= 2 /\ b[2] \in ContBytes
         THEN <<"U+00E9">> \o decode(SubSeq(b, 3, Len(b)))
    ELSE IF b[1] \in HighBytes THEN decode(Tail(b))
    ELSE <<b[1]>> \o decode(Tail(b))

RECURSIVE lstrip(_)
lstrip(s) == IF s # <<>> /\ s[1] \in WS THEN lstrip(Tail(s)) ELSE s

RECURSIVE rstrip(_)
rstrip(s) ==
    IF s # <<>> /\ s[Len(s)] \in WS THEN rstrip(SubSeq(s, 1, Len(s) - 1)) ELSE s

\* bytes.strip() / str.strip()
strip(s) == rstrip(lstrip(s))

\* data.split(b'\n'): always at least one fragment; the last one is the text
\* after the last line feed.  split_from scans data from position i, the
\* current fragment starting at position from.
RECURSIVE split_from(_, _, _)
split_from(data, from, i) ==
    IF i > Len(data) THEN <<SubSeq(data, from, Len(data))>>
    ELSE IF data[i] = LF
         THEN <<SubSeq(data, from, i - 1)>> \o split_from(data, i + 1, i + 1)
    ELSE split_from(data, from, i + 1)

split_lf(data) == split_from(data, 1, 1)

\* line_bytes.split(b'=', 1), for a line that holds '='
EqAt(line) == CHOOSE k \in 1..Len(line) :
                  line[k] = "=" /\ \A j \in 1..(k - 1) : line[j] # "="
HasEq(line) == \E k \in 1..Len(line) : line[k] = "="
KeyOf(line) == strip(SubSeq(line, 1, EqAt(line) - 1))
ValOf(line) == decode(strip(SubSeq(line, EqAt(line) + 1, Len(line))))

startswith(s, p) == Len(s) >= Len(p) /\ SubSeq(s, 1, Len(p)) = p

\* 'sub in s' for str
contains(s, sub) ==
    \E i \in 0..(Len(s) - Len(sub)) : SubSeq(s, i + 1, i + Len(sub)) = sub

\* ------------------------------------------------------- Optional values

None == <<>>
Some(v) == <<v>>

\* ------------------------------------------------------------ FfmpegMon

K_frame == <<"f", "r", "a", "m", "e">>
K_fps == <<"f", "p", "s">>
K_bitrate == <<"b", "i", "t", "r", "a", "t", "e">>
K_out_time == <<"o", "u", "t", "_", "t", "i", "m", "e">>
K_speed == <<"s", "p", "e", "e", "d">>
K_progress == <<"p", "r", "o", "g", "r", "e", "s", "s">>

PROGRESS_KEYS ==
    { K_frame, K_fps, <<"s", "t", "r", "e", "a", "m", "_", "0", "_", "0", "_", "q">>, K_bitrate, <<"t", "o", "t", "a", "l", "_", "s", "i", "z", "e">>,
      <<"o", "u", "t", "_", "t", "i", "m", "e", "_", "u", "s">>, K_out_time, <<"d", "u", "p", "_", "f", "r", "a", "m", "e", "s">>, <<"d", "r", "o", "p", "_", "f", "r", "a", "m", "e", "s">>,
      K_speed, K_progress, <<"o", "u", "t", "_", "t", "i", "m", "e", "_", "m", "s">> }

PROGRESS_PREFIX == <<"P", "R", "O", "G", "R", "E", "S", "S", ":">>

\* The accumulator is a dict: a function from the keys seen to their values.
EmptyDict == [k \in {} |-> <<>>]
dict_set(d, k, v) == [x \in DOMAIN d \cup {k} |-> IF x = k THEN v ELSE d[x]]
dict_get(d, k, default) == IF k \in DOMAIN d THEN d[k] ELSE default

\* The composite string built when the 'progress' key arrives.
composite(b) ==
    <<"f", "r", "a", "m", "e", "=">> \o dict_get(b, K_frame, <<"0">>) \o <<" ", "f", "p", "s", "=">>
    \o dict_get(b, K_fps, <<"0">>) \o <<" ", "b", "i", "t", "r", "a", "t", "e", "=">>
    \o dict_get(b, K_bitrate, <<"0">>) \o <<" ", "t", "i", "m", "e", "=">>
    \o dict_get(b, K_out_time, <<"0", "0", ":", "0", "0", ":", "0", "0", ".", "0", "0">>) \o <<" ", "s", "p", "e", "e", "d", "=">>
    \o dict_get(b, K_speed, <<"0">>) \o <<"x">>

\* FfmpegMon.__init__
NewMon ==
    [ process |-> None, partial_line |-> <<>>, output_queue |-> <<>>,
      return_code |-> None, temp_file |-> None, progress_buffer |-> EmptyDict ]

\* process_lines with the accumulator kept after a completed group.
RECURSIVE process_lines_no_reset(_, _, _)
process_lines_no_reset(lines, q, buf) ==
    IF lines = <<>> THEN [output_queue |-> q, progress_buffer |-> buf]
    ELSE LET line_bytes == Head(lines)
             rest == Tail(lines)
         IN  IF line_bytes = <<>> THEN process_lines_no_reset(rest, q, buf)
             ELSE IF HasEq(line_bytes) /\ KeyOf(line_bytes) \in PROGRESS_KEYS
             THEN LET b1 == dict_set(buf, KeyOf(line_bytes), ValOf(line_bytes))
                  IN  IF KeyOf(line_bytes) = K_progress
                      THEN process_lines_no_reset(rest,
                               Append(q, PROGRESS_PREFIX \o composite(b1)), b1)
                      ELSE process_lines_no_reset(rest, q, b1)
             ELSE process_lines_no_reset(rest, Append(q, strip(decode(line_bytes))), buf)

\* process_lines with every key=value line taken for a progress line.
RECURSIVE process_lines_any_key(_, _, _)
process_lines_any_key(lines, q, buf) ==
    IF lines = <<>> THEN [output_queue |-> q, progress_buffer |-> buf]
    ELSE LET line_bytes == Head(lines)
             rest == Tail(lines)
         IN  IF line_bytes = <<>> THEN process_lines_any_key(rest, q, buf)
             ELSE IF HasEq(line_bytes)
             THEN LET b1 == dict_set(buf, KeyOf(line_bytes), ValOf(line_bytes))
                  IN  IF KeyOf(line_bytes) = K_progress
                      THEN process_lines_any_key(rest,
                               Append(q, PROGRESS_PREFIX \o composite(b1)),
                               EmptyDict)
                      ELSE process_lines_any_key(rest, q, b1)
             ELSE process_lines_any_key(rest, Append(q, strip(decode(line_bytes))), buf)

\* The loop over fragments[:-1]: returns the queue and the accumulator after
\* the complete lines `lines`.
RECURSIVE process_lines(_, _, _)
process_lines(lines, q, buf) ==
    IF lines = <<>> THEN [output_queue |-> q, progress_buffer |-> buf]
    ELSE LET line_bytes == Head(lines)
             rest == Tail(lines)
         IN  IF line_bytes = <<>> THEN process_lines(rest, q, buf)
             ELSE IF HasEq(line_bytes) /\ KeyOf(line_bytes) \in PROGRESS_KEYS
             THEN LET b1 == dict_set(buf, KeyOf(line_bytes), ValOf(line_bytes))
                  IN  IF KeyOf(line_bytes) = K_progress
                      THEN process_lines(rest,
                               Append(q, PROGRESS_PREFIX \o composite(b1)),
                               EmptyDict)
                      ELSE process_lines(rest, q, b1)
             ELSE process_lines(rest, Append(q, strip(decode(line_bytes))), buf)

\* The read with an empty read taken for the end of the stream: the carry-over
\* is flushed as a line.
read_chunk_flushes_on_empty(m, chunk) ==
    IF chunk = <<>>
    THEN [m EXCEPT !.partial_line = <<>>,
                   !.output_queue = IF strip(decode(m.partial_line)) # <<>>
                                    THEN Append(@, strip(decode(m.partial_line)))
                                    ELSE @]
    ELSE LET fragments == split_lf(m.partial_line \o chunk)
             n == Len(fragments)
             r == process_lines(SubSeq(fragments, 1, n - 1),
                                m.output_queue, m.progress_buffer)
         IN  [m EXCEPT !.partial_line = fragments[n],
                       !.output_queue = r.output_queue,
                       !.progress_buffer = r.progress_buffer]

\* The 'if chunk:' block of poll(): carry-over, split, classify.
read_chunk(m, chunk) ==
    IF chunk = <<>> THEN m
    ELSE LET fragments == split_lf(m.partial_line \o chunk)
             n == Len(fragments)
             r == process_lines(SubSeq(fragments, 1, n - 1),
                                m.output_queue, m.progress_buffer)
         IN  [m EXCEPT !.partial_line = fragments[n],
                       !.output_queue = r.output_queue,
                       !.progress_buffer = r.progress_buffer]

\* What poll() returns: no event yet (None), a text line, or an exit code.
NoEvent == [kind |-> "none", line |-> <<>>, code |-> 0]
LineEvent(l) == [kind |-> "line", line |-> l, code |-> 0]
CodeEvent(c) == [kind |-> "code", line |-> <<>>, code |-> c]
\* 'return self.return_code' (None when no code was recorded)
ReturnCode(rc) == IF rc = None THEN NoEvent ELSE CodeEvent(rc[1])

\* handle_termination reporting the exit code as soon as the child has
\* exited, without the flush and without draining the queue.
handle_termination_no_drain(m, process_status) ==
    IF process_status = None THEN [m |-> m, ret |-> NoEvent]
    ELSE [m |-> [m EXCEPT !.process = None, !.return_code = process_status],
          ret |-> CodeEvent(process_status[1])]

\* handle_termination returning the exit status without recording it.
handle_termination_unrecorded(m, process_status) ==
    IF process_status = None THEN [m |-> m, ret |-> NoEvent]
    ELSE LET l_str == strip(decode(m.partial_line))
             q == IF m.partial_line # <<>> /\ l_str # <<>>
                  THEN Append(m.output_queue, l_str) ELSE m.output_queue
         IN  IF q # <<>>
             THEN [m |-> [m EXCEPT !.partial_line = <<>>,
                                   !.output_queue = Tail(q)],
                   ret |-> LineEvent(Head(q))]
             ELSE [m |-> [m EXCEPT !.partial_line = <<>>,
                                   !.process = None],
                   ret |-> CodeEvent(process_status[1])]

\* The termination part of poll(), after the read: process_status is the
\* child's status as process.poll() reports it (None while it runs).
handle_termination(m, process_status) ==
    IF process_status = None THEN [m |-> m, ret |-> NoEvent]
    ELSE LET l_str == strip(decode(m.partial_line))
             q == IF m.partial_line # <<>> /\ l_str # <<>>
                  THEN Append(m.output_queue, l_str) ELSE m.output_queue
         IN  IF q # <<>>
             THEN [m |-> [m EXCEPT !.partial_line = <<>>,
                                   !.output_queue = Tail(q),
                                   !.return_code = process_status],
                   ret |-> LineEvent(Head(q))]
             ELSE [m |-> [m EXCEPT !.partial_line = <<>>,
                                   !.process = None,
                                   !.return_code = process_status],
                   ret |-> CodeEvent(process_status[1])]

\* poll() taking a queued event and dropping the one queued behind it.
poll_drops_next(m, chunk, process_status) ==
    IF m.output_queue # <<>>
    THEN [m |-> [m EXCEPT !.output_queue =
                     IF Len(@) > 1 THEN Tail(Tail(@)) ELSE Tail(@)],
          ret |-> LineEvent(Head(m.output_queue))]
    ELSE IF m.process = None THEN [m |-> m, ret |-> ReturnCode(m.return_code)]
    ELSE handle_termination(read_chunk(m, chunk), process_status)

\* FfmpegMon.poll(): chunk is what the non-blocking read returns (<<>> for
\* None or b''), process_status what process.poll() returns after it.  Both
\* are consulted only when the queue is empty and a process is held.
poll(m, chunk, process_status) ==
    IF m.output_queue # <<>>
    THEN [m |-> [m EXCEPT !.output_queue = Tail(@)],
          ret |-> LineEvent(Head(m.output_queue))]
    ELSE IF m.process = None THEN [m |-> m, ret |-> ReturnCode(m.return_code)]
    ELSE handle_termination(read_chunk(m, chunk), process_status)

\* Whether this poll() reads the pipe and checks the child.
polls_child(m) == m.output_queue = <<>> /\ m.process # None

\* start() without the 'already monitoring' check: a held process is replaced.
start_replaces(m, temp_file, new_process) ==
    IF new_process # None
    THEN [m |-> [m EXCEPT !.temp_file = temp_file, !.process = new_process],
          raised |-> FALSE]
    ELSE [m |-> [m EXCEPT !.temp_file = temp_file, !.return_code = Some(127)],
          raised |-> FALSE]

\* FfmpegMon.start(): new_process is the Popen handle, None when Popen raised.
\* temp_file is stored before the 'already monitoring' check.
start(m, temp_file, new_process) ==
    IF m.process # None
    THEN [m |-> [m EXCEPT !.temp_file = temp_file], raised |-> TRUE]
    ELSE IF new_process # None
    THEN [m |-> [m EXCEPT !.temp_file = temp_file, !.process = new_process],
          raised |-> FALSE]
    ELSE [m |-> [m EXCEPT !.temp_file = temp_file, !.return_code = Some(127)],
          raised |-> FALSE]

\* stop() with the accumulator left as it is.
stop_keeps_buffer(m, return_code) ==
    [m EXCEPT !.temp_file = None, !.process = None, !.partial_line = <<>>,
              !.return_code = Some(return_code)]

\* FfmpegMon.stop(): the monitor's fields after it (the queue is not touched).
stop(m, return_code) ==
    [m EXCEPT !.temp_file = None, !.process = None, !.partial_line = <<>>,
              !.progress_buffer = EmptyDict, !.return_code = Some(return_code)]


\* ----------------------------------------------------------- JobHandler

\* Times are in tenths of a second.
\* 'if now_mono - self.progress_line_mono < 1.8'
THROTTLE == 18
\* 'self.prev_ffmpeg_out_mono = now_mono + 1_000_000'
FAR_FUTURE == 10000000
\* 'job.ffsubproc.stop(return_code=254)'
STALL_CODE == 254

\* Characters the pattern's \s and \d match, and its case folding for the
\* letters of its literals.
RegexWS == {" ", "\t", "\r"}
lower(c) ==
    CASE c = "F" -> "f" [] c = "R" -> "r" [] c = "A" -> "a" [] c = "M" -> "m"
      [] c = "E" -> "e" [] c = "T" -> "t" [] c = "I" -> "i" [] OTHER -> c

word_at(s, i, w) ==
    /\ i + Len(w) - 1 <= Len(s)
    /\ \A k \in 1..Len(w) : lower(s[i + k - 1]) = w[k]

\* The position after the longest run of characters of `set` starting at i.
RECURSIVE run_end(_, _, _)
run_end(s, i, set) ==
    IF i <= Len(s) /\ s[i] \in set THEN run_end(s, i + 1, set) ELSE i

\* 'frame[=\s]+(\d+)\s+' at position i: the position after it, 0 if no match.
frame_end(s, i) ==
    IF ~word_at(s, i, <<"f", "r", "a", "m", "e">>) THEN 0
    ELSE LET a == i + 5
             b == run_end(s, a, RegexWS \cup {"="})
             c == run_end(s, b, Digits)
             d == run_end(s, c, RegexWS)
         IN  IF b > a /\ c > b /\ d > c THEN d ELSE 0

is_digit_at(s, i) == i <= Len(s) /\ s[i] \in Digits
is_char_at(s, i, c) == i <= Len(s) /\ s[i] = c

\* 'time[=\s]+(\d{2}):(\d{2}):(\d{2})\.(\d+)' at position i: the four groups,
\* None if no match.
time_groups(s, i) ==
    IF ~word_at(s, i, <<"t", "i", "m", "e">>) THEN None
    ELSE LET b == run_end(s, i + 4, RegexWS \cup {"="})
             e == run_end(s, b + 9, Digits)
         IN  IF /\ b > i + 4
                /\ is_digit_at(s, b) /\ is_digit_at(s, b + 1) /\ is_char_at(s, b + 2, ":")
                /\ is_digit_at(s, b + 3) /\ is_digit_at(s, b + 4) /\ is_char_at(s, b + 5, ":")
                /\ is_digit_at(s, b + 6) /\ is_digit_at(s, b + 7) /\ is_char_at(s, b + 8, ".")
                /\ e > b + 9
             THEN Some(<<SubSeq(s, b, b + 1), SubSeq(s, b + 3, b + 4),
                         SubSeq(s, b + 6, b + 7), SubSeq(s, b + 9, e - 1)>>)
             ELSE None

\* PROGRESS_RE.search(got): whether the pattern matches somewhere (its frame
\* section is the only required one; the leftmost match is taken) and the
\* groups of its optional time section, which the lazy '.*?' places at the
\* first position after the frame section where the section matches.
PROGRESS_RE_search(s) ==
    LET starts == {i \in 1..Len(s) : frame_end(s, i) > 0}
    IN  IF starts = {} THEN [matched |-> FALSE, time |-> None]
        ELSE LET i == CHOOSE k \in starts : \A j \in starts : k <= j
                 d == frame_end(s, i)
                 times == {t \in d..Len(s) : time_groups(s, t) # None}
             IN  [matched |-> TRUE,
                  time |-> IF times = {} THEN None
                           ELSE time_groups(s, CHOOSE t \in times :
                                                   \A u \in times : t <= u)]

\* A Run of Vid.runs; the JobHandler's own fields; what get_job_progress
\* returns (None, a formatted progress line - kept as the time groups it is
\* formatted from - or a terminal code).
NewRun(descr) ==
    [texts |-> <<>>, return_code |-> None, descr |-> descr, command |-> ""]
GotNone == [kind |-> "none", code |-> 0, time |-> <<>>]
GotProgress(groups) == [kind |-> "progress", code |-> 0, time |-> groups]
GotCode(c) == [kind |-> "code", code |-> c, time |-> <<>>]

append_log(run, line) ==
    IF startswith(line, PROGRESS_PREFIX) THEN run
    ELSE [run EXCEPT !.texts = Append(@, line)]

\* The result of get_job_progress and of its two loops: the monitor, the
\* handler's fields and the current Run after it, the value returned
\* (returned = FALSE: the loop ended without returning), the lines polled,
\* the monitor stop() was called on, if it was, and the kind of what the last
\* poll() returned.
Progress(m, h, run, got, returned, events, stopped, polled) ==
    [m |-> m, h |-> h, run |-> run, got |-> got, returned |-> returned,
     events |-> events, stopped |-> stopped, polled |-> polled]

\* The stall branch without the stop() call.
stall_without_stop(m, h, run, events, now_mono) ==
    Progress(m,
             [h EXCEPT !.prev_ffmpeg_out_mono = now_mono + FAR_FUTURE],
             [run EXCEPT !.texts = Append(@, <<"P", "R", "O", "G", "R", "E", "S", "S", " ", "T", "I", "M", "E", "O", "U", "T">>)],
             GotCode(STALL_CODE), TRUE, events, None, "none")

\* The stall branch: marker, stop(254), the clock pushed into the future.
stall(m, h, run, events, now_mono) ==
    Progress(stop(m, STALL_CODE),
             [h EXCEPT !.prev_ffmpeg_out_mono = now_mono + FAR_FUTURE],
             [run EXCEPT !.texts = Append(@, <<"P", "R", "O", "G", "R", "E", "S", "S", " ", "T", "I", "M", "E", "O", "U", "T">>)],
             GotCode(STALL_CODE), TRUE, events, Some(m), "none")

\* on_match with the parsing's TypeError (a match without its time groups)
\* not caught.
on_match_type_error_escapes(match, m, h, h1, run, got, ev, now_mono) ==
    IF ~match.matched
    THEN Progress(m, h1, append_log(run, got), GotNone, TRUE, ev, None, "line")
    ELSE IF now_mono - h.progress_line_mono < THROTTLE
    THEN Progress(m, h1, run, GotNone, TRUE, ev, None, "line")
    ELSE IF match.time = None
    THEN Progress(m, [h1 EXCEPT !.progress_line_mono = now_mono], run,
                  [kind |-> "raise", code |-> 0, time |-> <<>>],
                  TRUE, ev, None, "line")
    ELSE Progress(m, [h1 EXCEPT !.progress_line_mono = now_mono], run,
                  GotProgress(match.time[1]), TRUE, ev, None, "line")

\* on_match with a rate-limited string leaving the last-output clock alone.
on_match_throttle_keeps_clock(match, m, h, h1, run, got, ev, now_mono) ==
    IF ~match.matched
    THEN Progress(m, h1, append_log(run, got), GotNone, TRUE, ev, None, "line")
    ELSE IF now_mono - h.progress_line_mono < THROTTLE
    THEN Progress(m, h, run, GotNone, TRUE, ev, None, "line")
    ELSE IF match.time = None
    THEN Progress(m, [h1 EXCEPT !.progress_line_mono = now_mono], run, GotNone,
                  TRUE, ev, None, "line")
    ELSE Progress(m, [h1 EXCEPT !.progress_line_mono = now_mono], run,
                  GotProgress(match.time[1]), TRUE, ev, None, "line")

\* 'match = self.PROGRESS_RE.search(got)' and what follows it, for the line
\* got polled into monitor m: h is the handler before the line (its
\* progress_line_mono decides the throttle), h1 the handler after it.
on_match(match, m, h, h1, run, got, ev, now_mono) ==
    IF ~match.matched
    THEN Progress(m, h1, append_log(run, got), GotNone, TRUE, ev, None, "line")
    ELSE IF now_mono - h.progress_line_mono < THROTTLE
    THEN Progress(m, h1, run, GotNone, TRUE, ev, None, "line")
    ELSE IF match.time = None
    THEN Progress(m, [h1 EXCEPT !.progress_line_mono = now_mono], run, GotNone,
                  TRUE, ev, None, "line")
    ELSE Progress(m, [h1 EXCEPT !.progress_line_mono = now_mono], run,
                  GotProgress(match.time[1]), TRUE, ev, None, "line")

\* 1. 'while len(job.ffsubproc.output_queue) > 1': nothing is read here, the
\* queue is not empty.  on_discarded is the loop's body for the polled value.
RECURSIVE drain_backlog(_, _, _, _, _)
on_discarded(r, h, run, events, now_mono) ==
    IF r.ret.kind = "line"
    THEN drain_backlog(r.m, [h EXCEPT !.prev_ffmpeg_out_mono = now_mono],
                       append_log(run, r.ret.line), Append(events, r.ret.line),
                       now_mono)
    ELSE IF r.ret.kind = "code"
    THEN Progress(r.m, h, [run EXCEPT !.return_code = Some(r.ret.code)],
                  GotCode(r.ret.code), TRUE, events, None, "code")
    ELSE drain_backlog(r.m, h, run, events, now_mono)

drain_backlog(m, h, run, events, now_mono) ==
    IF Len(m.output_queue) > 1
    THEN on_discarded(poll(m, <<>>, None), h, run, events, now_mono)
    ELSE Progress(m, h, run, GotNone, FALSE, events, None, "none")

\* 2. 'while True': chunk and process_status are what the monitor's read and
\* exit check see in the one poll() of this call that can reach the child.
\* on_got is the loop's body for the polled value.
RECURSIVE monitoring_loop(_, _, _, _, _, _, _, _)
on_got(r, h, run, events, process_status, now_mono, secs_max) ==
    IF r.ret.kind = "code"
    THEN Progress(r.m, h, [run EXCEPT !.return_code = Some(r.ret.code)],
                  GotCode(r.ret.code), TRUE, events, None, "code")
    ELSE IF r.ret.kind = "line"
    THEN IF Len(r.m.output_queue) > 0 /\ startswith(r.ret.line, PROGRESS_PREFIX)
         THEN monitoring_loop(r.m, [h EXCEPT !.prev_ffmpeg_out_mono = now_mono],
                              run, Append(events, r.ret.line), <<>>,
                              process_status, now_mono, secs_max)
         ELSE on_match(PROGRESS_RE_search(r.ret.line), r.m, h,
                       [h EXCEPT !.prev_ffmpeg_out_mono = now_mono], run,
                       r.ret.line, Append(events, r.ret.line), now_mono)
    ELSE IF now_mono - h.prev_ffmpeg_out_mono > secs_max
    THEN stall(r.m, h, run, events, now_mono)
    ELSE Progress(r.m, h, run, GotNone, TRUE, events, None, "none")

monitoring_loop(m, h, run, events, chunk, process_status, now_mono, secs_max) ==
    on_got(poll(m, chunk, process_status), h, run, events, process_status,
           now_mono, secs_max)

\* The monitoring loop, entered unless the drain returned.
after_drain(d, chunk, process_status, now_mono, secs_max) ==
    IF d.returned THEN d
    ELSE monitoring_loop(d.m, d.h, d.run, d.events, chunk, process_status,
                         now_mono, secs_max)

\* JobHandler.get_job_progress(job)
get_job_progress(m, h, run, chunk, process_status, now_mono, secs_max) ==
    after_drain(drain_backlog(m, h, run, <<>>, now_mono), chunk, process_status,
                now_mono, secs_max)

\* ---- Failure Classifier

filter_error_signals ==
    << <<"E", "r", "r", "o", "r", " ", "r", "e", "i", "n", "i", "t", "i", "a", "l", "i", "z", "i", "n", "g", " ", "f", "i", "l", "t", "e", "r", "s">>,
       <<"I", "m", "p", "o", "s", "s", "i", "b", "l", "e", " ", "t", "o", " ", "c", "o", "n", "v", "e", "r", "t", " ", "b", "e", "t", "w", "e", "e", "n", " ", "t", "h", "e", " ", "f", "o", "r", "m", "a", "t", "s">>,
       <<"R", "e", "c", "o", "n", "f", "i", "g", "u", "r", "i", "n", "g", " ", "f", "i", "l", "t", "e", "r", " ", "g", "r", "a", "p", "h", " ", "b", "e", "c", "a", "u", "s", "e", " ", "v", "i", "d", "e", "o", " ", "p", "a", "r", "a", "m", "e", "t", "e", "r", "s", " ", "c", "h", "a", "n", "g", "e", "d">> >>

filter_reconfig_signals ==
    << <<"E", "r", "r", "o", "r", " ", "r", "e", "i", "n", "i", "t", "i", "a", "l", "i", "z", "i", "n", "g", " ", "f", "i", "l", "t", "e", "r", "s">>,
       <<"I", "m", "p", "o", "s", "s", "i", "b", "l", "e", " ", "t", "o", " ", "c", "o", "n", "v", "e", "r", "t", " ", "b", "e", "t", "w", "e", "e", "n", " ", "t", "h", "e", " ", "f", "o", "r", "m", "a", "t", "s">> >>

\* corruption_signals of _should_retry_with_error_tolerance, in dict order
corruption_signals ==
    << <<<<"c", "o", "r", "r", "u", "p", "t", " ", "d", "e", "c", "o", "d", "e", "d", " ", "f", "r", "a", "m", "e">>, 10>>,
       <<<<"i", "l", "l", "e", "g", "a", "l", " ", "m", "b", "_", "n", "u", "m">>, 9>>,
       <<<<"m", "a", "r", "k", "e", "r", " ", "d", "o", "e", "s", " ", "n", "o", "t", " ", "m", "a", "t", "c", "h", " ", "f", "_", "c", "o", "d", "e">>, 9>> >>

any_signal(signals, texts) ==
    \E i \in 1..Len(signals) : \E j \in 1..Len(texts) : contains(texts[j], signals[i])

\* The score of the first signal of the table that the line contains, else 0.
line_score(table, line) ==
    LET hits == {i \in 1..Len(table) : contains(line, table[i][1])}
    IN  IF hits = {} THEN 0
        ELSE table[CHOOSE i \in hits : \A j \in hits : i <= j][2]

\* The severity loop: TRUE as soon as the running total reaches 20.
RECURSIVE severe(_, _)
severe(texts, total) ==
    IF texts = <<>> THEN FALSE
    ELSE LET t == total + line_score(corruption_signals, Head(texts))
         IN  IF line_score(corruption_signals, Head(texts)) > 0 /\ t >= 20 THEN TRUE
             ELSE severe(Tail(texts), t)

\* The tolerant check without the test of the exit code.
should_retry_with_error_tolerance_any_code(run) ==
    IF any_signal(filter_error_signals, run.texts) THEN TRUE
    ELSE severe(run.texts, 0)

\* JobHandler._should_retry_with_error_tolerance(vid), on vid.runs[-1]
should_retry_with_error_tolerance(run) ==
    IF run.return_code = Some(0) THEN FALSE
    ELSE IF any_signal(filter_error_signals, run.texts) THEN TRUE
    ELSE severe(run.texts, 0)

\* The software check run over the tolerant check's list of messages.
should_retry_with_software_any_filter_message(run) ==
    IF run.return_code = Some(0) THEN FALSE
    ELSE any_signal(filter_error_signals, run.texts)

\* JobHandler._should_retry_with_software(vid), on vid.runs[-1]
should_retry_with_software(run) ==
    IF run.return_code = Some(0) THEN FALSE
    ELSE any_signal(filter_reconfig_signals, run.texts)

\* ---- Corruption scoring (elaborate_err of finish_transcode_job)

\* CORRUPTION_SEVERITY, in dict order
CORRUPTION_SEVERITY ==
    << <<<<"c", "o", "r", "r", "u", "p", "t", " ", "d", "e", "c", "o", "d", "e", "d", " ", "f", "r", "a", "m", "e">>, 10>>,
       <<<<"i", "l", "l", "e", "g", "a", "l", " ", "m", "b", "_", "n", "u", "m">>, 9>>,
       <<<<"m", "a", "r", "k", "e", "r", " ", "d", "o", "e", "s", " ", "n", "o", "t", " ", "m", "a", "t", "c", "h", " ", "f", "_", "c", "o", "d", "e">>, 9>>,
       <<<<"d", "a", "m", "a", "g", "e", "d", " ", "a", "t">>, 8>>,
       <<<<"E", "r", "r", "o", "r", " ", "a", "t", " ", "M", "B", ":">>, 7>>,
       <<<<"t", "i", "m", "e", "_", "i", "n", "c", "r", "e", "m", "e", "n", "t", "_", "b", "i", "t", "s">>, 6>>,
       <<<<"s", "l", "i", "c", "e", " ", "e", "n", "d", " ", "n", "o", "t", " ", "r", "e", "a", "c", "h", "e", "d">>, 5>>,
       <<<<"c", "o", "n", "c", "e", "a", "l", "i", "n", "g">>, 2>> >>

SEVERITY_THRESHOLD == 30

DigitValue(c) ==
    CASE c = "0" -> 0 [] c = "1" -> 1 [] c = "2" -> 2 [] c = "3" -> 3
      [] c = "4" -> 4 [] c = "5" -> 5 [] c = "6" -> 6 [] c = "7" -> 7
      [] c = "8" -> 8 [] c = "9" -> 9

DigitChar(d) ==
    CASE d = 0 -> "0" [] d = 1 -> "1" [] d = 2 -> "2" [] d = 3 -> "3"
      [] d = 4 -> "4" [] d = 5 -> "5" [] d = 6 -> "6" [] d = 7 -> "7"
      [] d = 8 -> "8" [] d = 9 -> "9"

\* int(s) for a str of decimal digits
RECURSIVE to_int(_)
to_int(s) ==
    IF s = <<>> THEN 0
    ELSE 10 * to_int(SubSeq(s, 1, Len(s) - 1)) + DigitValue(s[Len(s)])

\* str(n) for an int
RECURSIVE str_int(_)
str_int(n) ==
    IF n < 0 THEN <<"-">> \o str_int(0 - n)
    ELSE IF n < 10 THEN <<DigitChar(n)>>
    ELSE str_int(n \div 10) \o <<DigitChar(n % 10)>>

REPEAT_HEAD == <<"L", "a", "s", "t", " ", "m", "e", "s", "s", "a", "g", "e", " ", "r", "e", "p", "e", "a", "t", "e", "d", " ">>
REPEAT_TAIL == <<" ", "t", "i", "m", "e", "s">>

\* The literal w at position i of s.
literal_at(s, i, w) ==
    i + Len(w) - 1 <= Len(s) /\ SubSeq(s, i, i + Len(w) - 1) = w

\* re.search(r"Last message repeated (\d+) times", line) tried at position
\* i: the multiplier int(group(1)), None if the pattern does not match there
\* (\d+ is greedy and " times" starts with a non-digit, so the digits end
\* where the run of digits ends).
repeat_match_at(line, i) ==
    LET d == i + Len(REPEAT_HEAD)
        e == run_end(line, d, Digits)
    IN  IF literal_at(line, i, REPEAT_HEAD) /\ e > d
           /\ literal_at(line, e, REPEAT_TAIL)
        THEN Some(to_int(SubSeq(line, d, e - 1)))
        ELSE None

\* The multiplier of the leftmost match, None when the line has none.
repeat_match(line) ==
    LET hits == {i \in 1..Len(line) : repeat_match_at(line, i) # None}
    IN  IF hits = {} THEN None
        ELSE repeat_match_at(line, CHOOSE i \in hits : \A k \in hits : i <= k)

\* The scoring loop 'for line in vid.runs[-1].texts' with its three running
\* values; the result is [total_severity, corruption_events].
Score(total, events) == [total_severity |-> total, corruption_events |-> events]

\* The loop without the repeat lines.
RECURSIVE score_lines_no_repeat(_, _, _, _)
score_lines_no_repeat(texts, total, events, last_score) ==
    IF texts = <<>> THEN Score(total, events)
    ELSE LET s == line_score(CORRUPTION_SEVERITY, Head(texts))
         IN  score_lines_no_repeat(Tail(texts), total + s,
                                   events + (IF s > 0 THEN 1 ELSE 0), s)

\* The loop with a repeat line leaving last_score as it was, so that the
\* weight is carried to the next repeat line.
RECURSIVE score_lines_carry(_, _, _, _)
score_lines_carry(texts, total, events, last_score) ==
    IF texts = <<>> THEN Score(total, events)
    ELSE LET line == Head(texts)
             s == line_score(CORRUPTION_SEVERITY, line)
             rep == repeat_match(line)
             total1 == total + s + (IF rep # None THEN last_score * rep[1] ELSE 0)
             events1 == events + (IF s > 0 THEN 1 ELSE 0)
                        + (IF rep # None /\ last_score > 0 THEN rep[1] ELSE 0)
         IN  score_lines_carry(Tail(texts), total1, events1,
                               IF rep # None THEN last_score ELSE s)

\* The loop with a repeat line counted as an event of its own.
RECURSIVE score_lines_repeat_is_event(_, _, _, _)
score_lines_repeat_is_event(texts, total, events, last_score) ==
    IF texts = <<>> THEN Score(total, events)
    ELSE LET line == Head(texts)
             s == line_score(CORRUPTION_SEVERITY, line)
             rep == repeat_match(line)
             total1 == total + s + (IF rep # None THEN last_score * rep[1] ELSE 0)
             events1 == events + (IF s > 0 THEN 1 ELSE 0)
                        + (IF rep # None /\ last_score > 0 THEN rep[1] + 1 ELSE 0)
         IN  score_lines_repeat_is_event(Tail(texts), total1, events1,
                                         IF rep # None THEN 0 ELSE s)

RECURSIVE score_lines(_, _, _, _)
score_lines(texts, total, events, last_score) ==
    IF texts = <<>> THEN Score(total, events)
    ELSE LET line == Head(texts)
             s == line_score(CORRUPTION_SEVERITY, line)
             rep == repeat_match(line)
             total1 == total + s + (IF rep # None THEN last_score * rep[1] ELSE 0)
             events1 == events + (IF s > 0 THEN 1 ELSE 0)
                        + (IF rep # None /\ last_score > 0 THEN rep[1] ELSE 0)
         IN  score_lines(Tail(texts), total1, events1,
                         IF rep # None THEN 0 ELSE s)

\* f"{vid.return_code}": 'None' or the decimal number
format_code(rc) == IF rc = None THEN <<"N", "o", "n", "e">> ELSE str_int(rc[1])

\* The line appended when the total reaches the threshold.
corrupt_video_line(score, vid_return_code) ==
    <<"C", "O", "R", "R", "U", "P", "T", " ", "V", "I", "D", "E", "O", ":", " ", "T", "o", "t", "a", "l", " ", "S", "e", "v", "e", "r", "i", "t", "y", " ", "S", "c", "o", "r", "e", " ">> \o str_int(score.total_severity)
    \o <<" ", "f", "r", "o", "m", " ">> \o str_int(score.corruption_events)
    \o <<" ", "e", "v", "e", "n", "t", "s", ".", " ", "F", "F", "m", "p", "e", "g", " ", "e", "r", "r", "o", "r", "_", "c", "o", "d", "e", "=">> \o format_code(vid_return_code)

\* elaborate_err(vid) on vid.runs[-1]: the score computed (zero when the exit
\* code is 0 and nothing is scanned) and the Run after it.
elaborate_err(run, vid_return_code) ==
    IF run.return_code = Some(0)
    THEN [score |-> Score(0, 0), scanned |-> FALSE, run |-> run]
    ELSE LET score == score_lines(run.texts, 0, 0, 0)
         IN  [score |-> score, scanned |-> TRUE,
              run |-> IF score.total_severity >= SEVERITY_THRESHOLD
                      THEN [run EXCEPT !.texts =
                               Append(@, corrupt_video_line(score, vid_return_code))]
                      ELSE run]

\* finish_transcode_job(success, job), as far as the Run, the success flag
\* and the probe returned go: probe is what probe_cache.get(job.temp_file)
\* finds (None: nothing), rejected whether the shrink check rejects the
\* result.  elaborate_err is called for a job passed as a success whose
\* output cannot be probed, and for no other.
finish_transcode_job(run, vid_return_code, success, probe, rejected) ==
    IF success /\ probe = None
    THEN [run |-> elaborate_err(run, vid_return_code).run, success |-> FALSE,
          probe |-> None]
    ELSE IF success
    THEN [run |-> run, success |-> ~rejected, probe |-> probe]
    ELSE [run |-> run, success |-> FALSE, probe |-> None]

\* ---- Retry Ladder

\* What check_job_status decides on a terminal code, for a job with the given
\* tier flags whose Run (exit code recorded) is run: which job to start, the
\* report text, and done.
Decision(tier, report, done) == [tier |-> tier, report |-> report, done |-> done]

\* The completion status without the tier.
final_status_one_ok(job, return_code) ==
    IF return_code = 0 THEN " OK" ELSE "ERR"

\* '3. Final Completion': the status of a job that ends the transcode.
final_status(job, return_code) ==
    IF return_code = 0
    THEN (IF job.is_software_fallback THEN "OK3"
          ELSE IF job.is_retry THEN "OK2" ELSE " OK")
    ELSE "ERR"

\* The ladder with the first rule also open to a job that is already a retry.
ladder_retries_again(job, run, return_code) ==
    IF return_code # 0 /\ ~job.is_software_fallback
       /\ should_retry_with_error_tolerance(run)
    THEN Decision("tolerant", "RETRYING (Tolerant)...", FALSE)
    ELSE Decision("none", final_status(job, return_code), TRUE)

\* The ladder with the software rule first and open to the initial job.
ladder_software_first(job, run, return_code) ==
    IF return_code # 0 /\ ~job.is_software_fallback
       /\ should_retry_with_software(run)
    THEN Decision("software", "RETRYING (Software)...", FALSE)
    ELSE IF return_code # 0 /\ ~job.is_retry /\ ~job.is_software_fallback
            /\ should_retry_with_error_tolerance(run)
    THEN Decision("tolerant", "RETRYING (Tolerant)...", FALSE)
    ELSE Decision("none", final_status(job, return_code), TRUE)

\* The ladder without the Failure Classifier: every failed job is retried.
ladder_retries_every_failure(job, run, return_code) ==
    IF return_code # 0 /\ ~job.is_retry /\ ~job.is_software_fallback
    THEN Decision("tolerant", "RETRYING (Tolerant)...", FALSE)
    ELSE IF return_code # 0 /\ job.is_retry /\ ~job.is_software_fallback
    THEN Decision("software", "RETRYING (Software)...", FALSE)
    ELSE Decision("none", final_status(job, return_code), TRUE)

\* check_job_status on a terminal code: Tier 2, Tier 3, final completion.
ladder(job, run, return_code) ==
    IF return_code # 0 /\ ~job.is_retry /\ ~job.is_software_fallback
       /\ should_retry_with_error_tolerance(run)
    THEN Decision("tolerant", "RETRYING (Tolerant)...", FALSE)
    ELSE IF return_code # 0 /\ job.is_retry /\ ~job.is_software_fallback
            /\ should_retry_with_software(run)
    THEN Decision("software", "RETRYING (Software)...", FALSE)
    ELSE Decision("none", final_status(job, return_code), TRUE)

\* ---- start_transcode_job

\* f"{prefix}.{vid.standard_name}" of the one Vid of the model
TEMP_FILE == "TEMP.a.mkv"

\* Vid.start_new_run(): a new Run at the end of vid.runs.
start_new_run(runs) == Append(runs, NewRun(""))

\* Job(vid, orig_backup_file, temp_file, duration_secs): a Job with its own,
\* new FfmpegMon and no tier flag set.
NewJob(temp_file) ==
    [temp_file |-> temp_file, is_retry |-> FALSE, is_software_fallback |-> FALSE,
     ffsubproc |-> NewMon]

\* The new job without its is_retry flag.
flagged_job_not_retry(j, retry_with_error_tolerance, force_software) ==
    [j EXCEPT !.is_retry = FALSE,
              !.is_software_fallback = force_software]

\* 'job.is_retry = ...; job.is_software_fallback = ...'
flagged_job(j, retry_with_error_tolerance, force_software) ==
    [j EXCEPT !.is_retry = retry_with_error_tolerance,
              !.is_software_fallback = force_software]

\* bash_quote(self.chooser.make_ffmpeg_cmd(params)): the command line of
\* the attempt, which differs with the error tolerance and with the
\* software fallback.
ffmpeg_cmd(retry_with_error_tolerance, force_software) ==
    IF force_software THEN "ffmpeg (tolerant, software)"
    ELSE IF retry_with_error_tolerance THEN "ffmpeg (tolerant)"
    ELSE "ffmpeg"

\* start_transcode_job with a retry run in the Run of the job before it.
start_transcode_job_same_run(h, runs, fs, retry_with_error_tolerance, force_software, now_mono, new_process) ==
    LET retry == retry_with_error_tolerance \/ force_software
        runs1 == IF retry THEN runs ELSE start_new_run(<<>>)
        descr == IF retry_with_error_tolerance /\ ~force_software
                 THEN "redo w err tolerance"
                 ELSE IF force_software THEN "retry w S/W convert"
                 ELSE "initial run"
        j == flagged_job(NewJob(TEMP_FILE), retry_with_error_tolerance,
                         force_software)
        st == start(j.ffsubproc, Some(j.temp_file), new_process)
    IN  [h |-> [h EXCEPT !.prev_ffmpeg_out_mono = now_mono,
                         !.progress_line_mono = now_mono],
         runs |-> [runs1 EXCEPT ![Len(runs1)] =
                      [@ EXCEPT !.descr = descr,
                                !.command = ffmpeg_cmd(retry_with_error_tolerance,
                                                       force_software)]],
         files |-> fs \ {TEMP_FILE},
         job |-> [j EXCEPT !.ffsubproc = st.m]]

\* start_transcode_job writing the description into every Run of the Vid.
start_transcode_job_relabels(h, runs, fs, retry_with_error_tolerance, force_software, now_mono, new_process) ==
    LET runs0 == IF ~retry_with_error_tolerance /\ ~force_software
                 THEN <<>> ELSE runs
        runs1 == start_new_run(runs0)
        descr == IF retry_with_error_tolerance /\ ~force_software
                 THEN "redo w err tolerance"
                 ELSE IF force_software THEN "retry w S/W convert"
                 ELSE "initial run"
        j == flagged_job(NewJob(TEMP_FILE), retry_with_error_tolerance,
                         force_software)
        st == start(j.ffsubproc, Some(j.temp_file), new_process)
    IN  [h |-> [h EXCEPT !.prev_ffmpeg_out_mono = now_mono,
                         !.progress_line_mono = now_mono],
         runs |-> [i \in DOMAIN runs1 |->
                      [runs1[i] EXCEPT !.descr = descr,
                                       !.command = ffmpeg_cmd(retry_with_error_tolerance,
                                                              force_software)]],
         files |-> fs \ {TEMP_FILE},
         job |-> [j EXCEPT !.ffsubproc = st.m]]

\* start_transcode_job(vid, retry_with_error_tolerance, force_software) with h
\* the handler's clocks, runs = vid.runs and fs the files that exist;
\* new_process is the child Popen launches (None: the launch fails).  The
\* monitor of the new job is the result's job.ffsubproc.
start_transcode_job(h, runs, fs, retry_with_error_tolerance, force_software, now_mono, new_process) ==
    LET runs0 == IF ~retry_with_error_tolerance /\ ~force_software
                 THEN <<>> ELSE runs
        runs1 == start_new_run(runs0)
        descr == IF retry_with_error_tolerance /\ ~force_software
                 THEN "redo w err tolerance"
                 ELSE IF force_software THEN "retry w S/W convert"
                 ELSE "initial run"
        j == flagged_job(NewJob(TEMP_FILE), retry_with_error_tolerance,
                         force_software)
        st == start(j.ffsubproc, Some(j.temp_file), new_process)
    IN  [h |-> [h EXCEPT !.prev_ffmpeg_out_mono = now_mono,
                         !.progress_line_mono = now_mono],
         runs |-> [runs1 EXCEPT ![Len(runs1)] =
                      [@ EXCEPT !.descr = descr,
                                !.command = ffmpeg_cmd(retry_with_error_tolerance,
                                                       force_software)]],
         files |-> fs \ {TEMP_FILE},
         job |-> [j EXCEPT !.ffsubproc = st.m]]

\* ---- ProbeCache

\* 'if self._dirty_count >= 100'
DIRTY_LIMIT == 100

\* The thread that calls batch_get_or_probe; the executor's threads are
\* numbered from 1, one per path to probe.
MAIN == 0

\* ProbeCache._set_cache(filepath, meta): the entry goes into the table and
\* the dirty counter goes up.
set_cache(c, filepath) ==
    [c EXCEPT !.cache_data = @ \cup {filepath}, !.dirty_count = @ + 1]

\* ProbeCache.store(), first half: json.dump of the table as it is now into
\* the temporary file.
store_dump(c) == c.cache_data

\* ProbeCache.store(), second half: the temporary file replaces the cache
\* file and the dirty counter is reset.
store_replace(c, snap) == [c EXCEPT !.disk = snap, !.dirty_count = 0]

\* ProbeCache._get_valid_entry(filepath): file_state tells whether the file
\* is missing, or present with the size and the fields of its entry
\* ("same"), or present and different ("changed").  An entry that is not
\* valid is removed and counted as dirty.  meta is the entry found, if any.
get_valid_entry(c, filepath, file_state) ==
    IF filepath \in c.cache_data /\ file_state = "same"
    THEN [c |-> c, meta |-> Some("probe")]
    ELSE [c |-> IF filepath \in c.cache_data
                THEN [c EXCEPT !.cache_data = @ \ {filepath}, !.dirty_count = @ + 1]
                ELSE c,
          meta |-> None]

\* ProbeCache._get_metadata_with_ffprobe(file_path) in the calling thread:
\* None for a missing file, for a probe tool error and for undecodable
\* output (probe_ok false); a successful probe stores the cache first when
\* the dirty counter has reached the limit.
get_metadata_with_ffprobe(c, file_state, probe_ok) ==
    IF file_state = "missing" \/ ~probe_ok THEN [c |-> c, meta |-> None]
    ELSE [c |-> IF c.dirty_count >= DIRTY_LIMIT
                THEN store_replace(c, store_dump(c)) ELSE c,
          meta |-> Some("probe")]

\* ProbeCache.get(filepath): the valid entry if there is one; otherwise the
\* file is probed, a probe made is put into the table, and _compute_fields
\* is called on the result, which for the result None raises AttributeError
\* (None has no attribute 'width').
get(c, filepath, file_state, probe_ok) ==
    LET v == get_valid_entry(c, filepath, file_state)
        p == get_metadata_with_ffprobe(v.c, file_state, probe_ok)
    IN  IF v.meta # None THEN [raised |-> FALSE, meta |-> v.meta, c |-> v.c]
        ELSE IF p.meta # None
        THEN [raised |-> FALSE, meta |-> p.meta, c |-> set_cache(p.c, filepath)]
        ELSE [raised |-> TRUE, meta |-> None, c |-> p.c]

\* ---------------------------------------------------------------- state

VARIABLES
    mon,        \* the FfmpegMon under observation (the live Job's ffsubproc)
    child,      \* the child process last launched: what it still has to
                \* write (todo), the unread content of its stderr pipe, whether
                \* it runs, its exit status (None while it runs)
    files,      \* the files that exist
    ret,        \* what the last poll() returned
    raised,     \* whether the last start()/stop() raised
    lastOp,     \* the last monitor operation called, with stop()'s code
    prevOp,     \* the operation before it
    prevMon,    \* the monitor as it was before the last operation
    hist,       \* the text lines poll() returned since the last launch
    segs,       \* the bytes read since the last launch, cut where poll()
                \* flushed the carry-over as a final line
    raced,      \* whether the child wrote and exited between a read and the
                \* exit check of the same poll()
    nstarts,    \* start() calls so far
    unlinks,    \* the paths os.unlink was called on by stop()
    lastRead,   \* the bytes the last poll() read (<<>> when it read none)
    now,        \* time.monotonic(), in tenths of a second
    handler,    \* the JobHandler's progress_line_mono and prev_ffmpeg_out_mono
    vid_runs,   \* vid.runs of the Vid being transcoded
    job,        \* the Job the caller holds (None: none), its ffsubproc is mon
    result,     \* what the last check_job_status returned
    tiers,      \* the tiers of the jobs started in the current transcode
    call,       \* the last check_job_status call: what it found and did
    seen,       \* when a line event of the live job was last consumed by
                \* get_job_progress, or the job started
    written,    \* when the live job's child last wrote, or was started
    njobs,      \* start_transcode_job calls so far
    other,      \* a second Job supervised through the same JobHandler: its
                \* monitor, child and Vid.runs, and its last get_job_progress
    cache       \* the ProbeCache: its table, dirty counter, lock and file,
                \* and the threads of a batch_get_or_probe call

monVars == <<mon, child, files, ret, raised, lastOp, prevOp, prevMon, hist,
             segs, raced, nstarts, unlinks, lastRead>>

jobVars == <<now, handler, vid_runs, job, result, tiers, call, seen, written,
             njobs>>

extVars == <<other, cache>>

vars == <<monVars, jobVars, extVars>>

\* --------------------------------------------------------------- bounds

\* start() calls in the monitor's life-cycle specification
MaxStarts == 2

\* complete lines fed in the line-level specification
MaxLines == 5

\* initial start_transcode_job calls in the job-level specification
MaxTranscodes == 2

\* opts.progress_secs_max, the clock's step and its last value (tenths of a
\* second)
ProgressSecsMax == 20
TickStep == 11
MaxTime == 22
MaxProgressTime == 44

\* captured lines of a Run in the classifier's specification
MaxLog == 4

\* paths a batch_get_or_probe call has to probe
MaxProbes == 2

\* ------------------------------------------------------------ the child

\* Exit statuses a child ends with on its own.
ExitCodes == {0, 1}

\* Popen's returncode for a child ended by SIGTERM / SIGKILL.
SIGTERM_STATUS == -15
SIGKILL_STATUS == -9

NoChild == [pid |-> 0, alive |-> FALSE, todo |-> <<>>, pipe |-> <<>>,
            status |-> None, stream |-> <<>>]

Op(name, code) == [op |-> name, code |-> code]

\* Streams for the parsing specification: a multi-byte character, an invalid
\* byte and a trailing fragment; whitespace-only and empty lines; two progress
\* groups with keys out of order and keys missing; the four-line example.
StreamText == <<"a", "xC3", "xA9", "xFF", LF, "b">>
StreamBlank == <<" ", LF, LF, "x", "=", " ", "1", LF, " ", " ">>
StreamGroups == <<"o", "u", "t", "_", "t", "i", "m", "e", "=", "1", LF, "f", "r", "a", "m", "e", "=", "7", LF, "p", "r", "o", "g", "r", "e", "s", "s", "=", "c", LF, "f", "p", "s", "=", "1", LF, "p", "r", "o", "g", "r", "e", "s", "s", "=", "e", LF>>
StreamExample == <<"f", "r", "a", "m", "e", "=", "1", "0", "0", LF, "t", "i", "m", "e", "=", "0", "0", ":", "0", "1", ":", "3", "0", ".", "5", "0", LF, "s", "p", "e", "e", "d", "=", "2", ".", "0", LF, "p", "r", "o", "g", "r", "e", "s", "s", "=", "c", "o", "n", "t", "i", "n", "u", "e", LF>>

ParseStreams == {StreamText, StreamBlank, StreamGroups, StreamExample}

\* Short streams for the life-cycle specification.
LifeStreams == { <<"a", LF, "f", "p", "s", "=", "1", LF, "c">> }

TempFiles == {None, Some("TEMP.a.mkv")}

\* ------------------------------------------------------ monitor actions

\* start(cmd, temp_file) on the monitor; the child launched writes stream s.
\* The encoder may or may not have created its output file by the time
\* start() returns.
MonStart(streams, temps, limit) ==
    /\ nstarts < limit
    /\ \E s \in streams, tf \in temps, launched \in BOOLEAN :
       \E created \in (IF mon.process = None /\ launched /\ tf # None
                       THEN BOOLEAN ELSE {FALSE}) :
          LET accepted == mon.process = None
              r == start(mon, tf, IF launched THEN Some(child.pid + 1) ELSE None)
          IN  /\ mon' = r.m
              /\ raised' = r.raised
              /\ child' = IF accepted /\ launched
                          THEN [pid |-> child.pid + 1, alive |-> TRUE, todo |-> s,
                                pipe |-> <<>>, status |-> None, stream |-> s]
                          ELSE child
              /\ files' = IF accepted /\ launched /\ created /\ tf # None
                          THEN files \cup {tf[1]} ELSE files
              /\ hist' = IF accepted THEN <<>> ELSE hist
              /\ segs' = IF accepted THEN << <<>> >> ELSE segs
              /\ raced' = IF accepted THEN FALSE ELSE raced
    /\ nstarts' = nstarts + 1
    /\ prevOp' = lastOp
    /\ prevMon' = mon
    /\ lastOp' = Op("start", 0)
    /\ lastRead' = <<>>
    /\ UNCHANGED <<ret, unlinks>>
    /\ UNCHANGED jobVars
    /\ UNCHANGED extVars

\* The child writes the next byte to its stderr.  Bytes written between two
\* reads add up in the pipe, so a read returns a chunk of any length.
ChildWrite ==
    /\ child.alive
    /\ child.todo # <<>>
    /\ child' = [child EXCEPT !.pipe = Append(@, Head(child.todo)),
                              !.todo = Tail(@)]
    /\ UNCHANGED <<mon, files, ret, raised, lastOp, prevOp, prevMon, hist, segs,
                   raced, nstarts, unlinks, lastRead>>
    /\ UNCHANGED jobVars
    /\ UNCHANGED extVars

\* The child exits on its own, having written everything.
ChildExit ==
    /\ child.alive
    /\ child.todo = <<>>
    /\ \E c \in ExitCodes : child' = [child EXCEPT !.alive = FALSE, !.status = Some(c)]
    /\ UNCHANGED <<mon, files, ret, raised, lastOp, prevOp, prevMon, hist, segs,
                   raced, nstarts, unlinks, lastRead>>
    /\ UNCHANGED jobVars
    /\ UNCHANGED extVars

\* The bytes read since the launch, cut at each flush of a non-empty carry-over.
segs_after(m, chunk, process_status) ==
    LET n == Len(segs)
        s1 == [segs EXCEPT ![n] = @ \o chunk]
    IN  IF process_status # None /\ read_chunk(m, chunk).partial_line # <<>>
        THEN Append(s1, <<>>) ELSE s1

\* The child after a poll(): a read empties the pipe; a child that then
\* writes the rest of its output and exits (late) leaves it in the pipe.
child_after_read(c, reads, late) ==
    IF ~reads THEN c
    ELSE IF late # None
    THEN [c EXCEPT !.pipe = c.todo, !.todo = <<>>, !.alive = FALSE, !.status = late]
    ELSE [c EXCEPT !.pipe = <<>>]

\* One poll() of the monitor.  When it reads the pipe, the read takes all the
\* pipe holds; between that read and process.poll() the running child may
\* write the rest of its output and exit (late = the exit status it then has),
\* and the bytes written then stay in the pipe.
Poll ==
    /\ \E late \in (IF polls_child(mon) /\ child.alive
                    THEN {None} \cup {Some(c) : c \in ExitCodes} ELSE {None}) :
       \E chunk \in {IF polls_child(mon) THEN child.pipe ELSE <<>>},
          process_status \in {IF late # None THEN late ELSE child.status} :
       \E r \in {poll(mon, chunk, process_status)} :
          /\ mon' = r.m
          /\ ret' = r.ret
          /\ child' = child_after_read(child, polls_child(mon), late)
          /\ hist' = IF r.ret.kind = "line" THEN Append(hist, r.ret.line) ELSE hist
          /\ segs' = IF polls_child(mon) THEN segs_after(mon, chunk, process_status)
                     ELSE segs
          /\ raced' = IF late # None /\ child.todo # <<>> THEN TRUE ELSE raced
          /\ lastRead' = chunk
    /\ prevOp' = lastOp
    /\ prevMon' = mon
    /\ lastOp' = Op("poll", 0)
    /\ raised' = FALSE
    /\ UNCHANGED <<files, nstarts, unlinks>>
    /\ UNCHANGED jobVars
    /\ UNCHANGED extVars

\* The effect of stop() outside the monitor: a running child held by the
\* monitor is terminated (how = "term") or, when it does not exit within the
\* wait, killed (how = "kill"); a registered temp file that exists is
\* unlinked, and a failing unlink (removed = FALSE) is ignored.
child_after_stop(c, m, how) ==
    IF m.process # None /\ c.alive
    THEN [c EXCEPT !.alive = FALSE,
                   !.status = Some(IF how = "term" THEN SIGTERM_STATUS
                                                    ELSE SIGKILL_STATUS)]
    ELSE c

files_after_stop(fs, m, removed) ==
    IF m.temp_file # None /\ m.temp_file[1] \in fs /\ removed
    THEN fs \ {m.temp_file[1]} ELSE fs

unlinks_after_stop(u, fs, m) ==
    IF m.temp_file # None /\ m.temp_file[1] \in fs
    THEN u \cup {m.temp_file[1]} ELSE u

\* stop(return_code) on the monitor: 255 is the default, 254 the code the
\* JobHandler passes.
StopCodes == {255, 254}

Stop ==
    /\ \E c \in StopCodes,
          how \in (IF mon.process # None /\ child.alive THEN {"term", "kill"}
                   ELSE {"term"}),
          removed \in (IF mon.temp_file # None /\ mon.temp_file[1] \in files
                       THEN BOOLEAN ELSE {TRUE}) :
          /\ mon' = stop(mon, c)
          /\ child' = child_after_stop(child, mon, how)
          /\ files' = files_after_stop(files, mon, removed)
          /\ unlinks' = unlinks_after_stop(unlinks, files, mon)
          /\ lastOp' = Op("stop", c)
    /\ prevOp' = lastOp
    /\ prevMon' = mon
    /\ raised' = FALSE
    /\ lastRead' = <<>>
    /\ UNCHANGED <<ret, hist, segs, raced, nstarts>>
    /\ UNCHANGED jobVars
    /\ UNCHANGED extVars

MonInit ==
    /\ mon = NewMon
    /\ child = NoChild
    /\ files = {}
    /\ ret = NoEvent
    /\ raised = FALSE
    /\ lastOp = Op("init", 0)
    /\ prevOp = Op("init", 0)
    /\ prevMon = NewMon
    /\ hist = <<>>
    /\ segs = << <<>> >>
    /\ raced = FALSE
    /\ nstarts = 0
    /\ unlinks = {}
    /\ lastRead = <<>>

\* A JobHandler after __init__, no Job yet.
NoCall ==
    [made |-> FALSE, job |-> NewJob(TEMP_FILE), got |-> GotNone, polled |-> "none",
     alive |-> FALSE, idle_seen |-> 0, idle_written |-> 0, run |-> NewRun(""),
     texts_before |-> <<>>, stopped_alive |-> FALSE, temp_existed |-> FALSE,
     unlinked |-> {}, started |-> "none", njobs_before |-> 0, events |-> <<>>,
     at |-> 0, h |-> [progress_line_mono |-> 0, prev_ffmpeg_out_mono |-> 0],
     quiet_since |-> 0, since_rendered |-> 0]

NoResult == [next_job |-> "none", kind |-> "none", text |-> "", time |-> <<>>,
             done |-> FALSE]

\* No second Job yet.  call is what the last get_job_progress call on the
\* second Job found: what it returned, the kind of what its last poll()
\* returned, whether its child was running, the time since a line of this
\* job was last consumed and since a string of this job last passed the rate
\* limit, and the strings polled.
NoPeer ==
    [job |-> None, mon |-> NewMon, child |-> NoChild, runs |-> <<>>, seen |-> 0,
     passed |-> 0, started |-> FALSE,
     call |-> [made |-> FALSE, got |-> GotNone, polled |-> "none", alive |-> FALSE,
               idle_seen |-> 0, since_passed |-> 0, events |-> <<>>]]

\* ProbeCache.__init__ and what came after it: an empty table and file, the
\* given dirty count, the lock free, no batch running.
NewCache(dirty) ==
    [cache_data |-> {}, dirty_count |-> dirty, lock |-> None, disk |-> {},
     results |-> {},
     main |-> [pc |-> "idle", i |-> 0, snap |-> {}],
     workers |-> [w \in 1..MaxProbes |-> [pc |-> "idle", meta |-> FALSE, snap |-> {}]],
     torn |-> FALSE]

ExtInit ==
    /\ other = NoPeer
    /\ cache = NewCache(0)

JobInit ==
    /\ now = 0
    /\ handler = [progress_line_mono |-> 0, prev_ffmpeg_out_mono |-> 0]
    /\ vid_runs = <<>>
    /\ job = None
    /\ result = NoResult
    /\ tiers = <<>>
    /\ call = NoCall
    /\ seen = 0
    /\ written = 0
    /\ njobs = 0

\* -------------------------------- the monitor's life cycle: specification

LifeStart == MonStart(LifeStreams, TempFiles, MaxStarts)

Init == MonInit /\ JobInit /\ ExtInit

Next == LifeStart \/ ChildWrite \/ ChildExit \/ Poll \/ Stop

Spec == Init /\ [][Next]_vars

\* ------------------------- one child, polled to its end: specification

ParseStart == MonStart(ParseStreams, {None}, 1)

NextParse == ParseStart \/ ChildWrite \/ ChildExit \/ Poll

SpecParse == Init /\ [][NextParse]_vars


\* ------------------- the line classifier on its own: specification
\* A started monitor whose child is alive; each step is one read that
\* returns one complete line, in any order and any combination.

LineAlphabet ==
    { <<"f", "r", "a", "m", "e", "=", "7">>, <<"f", "p", "s", "=", "1">>, <<"s", "p", "e", "e", "d", "=", "2">>, <<"o", "u", "t", "_", "t", "i", "m", "e", "=", "1">>, <<"p", "r", "o", "g", "r", "e", "s", "s", "=", "c">>, <<"a">> }

\* The complete lines split off so far (every fragment of a segment but its last).
RECURSIVE framed_lines(_)
framed_lines(ss) ==
    IF ss = <<>> THEN <<>>
    ELSE LET f == split_lf(Head(ss))
         IN  SubSeq(f, 1, Len(f) - 1) \o framed_lines(Tail(ss))

LinesStart == MonStart({<<>>}, {None}, 1)

FeedLine ==
    /\ mon.process # None
    /\ Len(framed_lines(segs)) < MaxLines
    /\ \E l \in LineAlphabet :
          /\ mon' = read_chunk(mon, Append(l, LF))
          /\ segs' = [segs EXCEPT ![Len(segs)] = @ \o Append(l, LF)]
          /\ lastRead' = Append(l, LF)
    /\ prevOp' = lastOp
    /\ prevMon' = mon
    /\ lastOp' = Op("poll", 0)
    /\ UNCHANGED <<child, files, ret, raised, hist, raced, nstarts, unlinks>>
    /\ UNCHANGED jobVars
    /\ UNCHANGED extVars

NextLines == LinesStart \/ FeedLine

SpecLines == Init /\ [][NextLines]_vars

\* ------------------------------------ one Vid's transcode: specification

\* What the encoder writes to stderr in a job: a filter failure, two corrupt
\* frames (severity 20), a progress group, a progress group without a time,
\* a log line that holds a frame count, or two progress groups.
JobStreams ==
    { <<"E", "r", "r", "o", "r", " ", "r", "e", "i", "n", "i", "t", "i", "a", "l", "i", "z", "i", "n", "g", " ", "f", "i", "l", "t", "e", "r", "s", LF>>,
      <<"p", "r", "o", "g", "r", "e", "s", "s", "=", "c", LF, "p", "r", "o", "g", "r", "e", "s", "s", "=", "e", LF>>,
      <<"c", "o", "r", "r", "u", "p", "t", " ", "d", "e", "c", "o", "d", "e", "d", " ", "f", "r", "a", "m", "e", LF, "c", "o", "r", "r", "u", "p", "t", " ", "d", "e", "c", "o", "d", "e", "d", " ", "f", "r", "a", "m", "e", LF>>,
      <<"f", "r", "a", "m", "e", "=", "7", LF, "o", "u", "t", "_", "t", "i", "m", "e", "=", "0", "0", ":", "0", "0", ":", "0", "1", ".", "5", LF, "p", "r", "o", "g", "r", "e", "s", "s", "=", "c", LF>>,
      <<"f", "r", "a", "m", "e", "=", "7", LF, "o", "u", "t", "_", "t", "i", "m", "e", "=", "N", "/", "A", LF, "p", "r", "o", "g", "r", "e", "s", "s", "=", "c", LF>>,
      <<"a", " ", "f", "r", "a", "m", "e", "=", "1", " ", "b", LF>> }

\* The child a job's start() launches (launched = FALSE: Popen fails).
launched_child(c, s, launched) ==
    IF launched
    THEN [pid |-> c.pid + 1, alive |-> TRUE, todo |-> s, pipe |-> <<>>,
          status |-> None, stream |-> s]
    ELSE c

tier_of(j) ==
    IF j.is_software_fallback THEN "software"
    ELSE IF j.is_retry THEN "tolerant" ELSE "initial"

held(j) == [temp_file |-> j.temp_file, is_retry |-> j.is_retry,
            is_software_fallback |-> j.is_software_fallback]

\* How a job's launch goes: Popen fails, the child runs, or it runs and has
\* created its output file by the time start() returns.
Launches == {"fails", "runs", "creates"}

\* The caller starts the transcode of the Vid: start_transcode_job(vid).
StartTranscode ==
    /\ job = None
    /\ njobs < MaxTranscodes
    /\ \E s \in JobStreams, launch \in Launches :
          LET launched == launch # "fails"
              r == start_transcode_job(handler, vid_runs, files, FALSE, FALSE, now,
                                       IF launched THEN Some(child.pid + 1) ELSE None)
          IN  /\ handler' = r.h
              /\ vid_runs' = r.runs
              /\ job' = Some(held(r.job))
              /\ mon' = r.job.ffsubproc
              /\ child' = launched_child(child, s, launched)
              /\ files' = IF launch = "creates" THEN r.files \cup {TEMP_FILE}
                          ELSE r.files
              /\ tiers' = <<tier_of(r.job)>>
    /\ njobs' = njobs + 1
    /\ seen' = now
    /\ written' = now
    /\ result' = NoResult
    /\ call' = [NoCall EXCEPT !.quiet_since = now]
    /\ UNCHANGED <<now, ret, raised, lastOp, prevOp, prevMon, hist, segs, raced,
                   nstarts, unlinks, lastRead>>
    /\ UNCHANGED extVars

\* The position after the first LF of s (Len(s) + 1 if it has none).
RECURSIVE line_end(_, _)
line_end(s, i) ==
    IF i > Len(s) THEN i ELSE IF s[i] = LF THEN i + 1 ELSE line_end(s, i + 1)

\* The live job's child writes its next line to stderr.
ChildWriteLine ==
    /\ job # None
    /\ child.alive
    /\ child.todo # <<>>
    /\ LET n == line_end(child.todo, 1) - 1
       IN  child' = [child EXCEPT !.pipe = @ \o SubSeq(child.todo, 1, n),
                                  !.todo = SubSeq(@, n + 1, Len(@))]
    /\ written' = now
    /\ UNCHANGED <<mon, files, ret, raised, lastOp, prevOp, prevMon, hist, segs,
                   raced, nstarts, unlinks, lastRead>>
    /\ UNCHANGED <<now, handler, vid_runs, job, result, tiers, call, seen, njobs>>
    /\ UNCHANGED extVars

\* The live job's child exits on its own, having written everything.
JobChildExit ==
    /\ job # None
    /\ ChildExit

\* Time passes while a job is live.
Tick ==
    /\ job # None
    /\ now + TickStep <= MaxTime
    /\ now' = now + TickStep
    /\ UNCHANGED monVars
    /\ UNCHANGED <<handler, vid_runs, job, result, tiers, call, seen, written, njobs>>
    /\ UNCHANGED extVars

\* What a check_job_status call found and did: the job it was called on, what
\* get_job_progress returned (p), the child after the monitor's read (c1) and
\* after a stop (c2), the Run after the call, the paths unlinked, the
\* ladder's decision, the time since a line was last consumed, the string
\* events the call's poll() calls returned, the time of the call, the
\* handler's clocks after get_job_progress, and the time since the live
\* job was started or last given a formatted progress line (quiet_since is
\* that time after the call).
CallRecord(j, p, c1, c2, run1, u2, d, idle_seen) ==
    [made |-> TRUE, job |-> j, got |-> p.got, polled |-> p.polled,
     alive |-> (mon.process # None /\ c1.alive),
     idle_seen |-> idle_seen, idle_written |-> now - written,
     run |-> run1,
     texts_before |-> vid_runs[Len(vid_runs)].texts,
     stopped_alive |-> c2.alive,
     temp_existed |-> (j.temp_file \in files),
     unlinked |-> u2, started |-> d.tier, njobs_before |-> njobs,
     events |-> p.events, at |-> now, h |-> p.h,
     quiet_since |-> IF d.tier # "none" \/ p.got.kind = "progress" THEN now
                     ELSE call.quiet_since,
     since_rendered |-> now - call.quiet_since]

\* check_job_status(job) on the Job the caller holds: get_job_progress, then
\* on a terminal code the ladder with the start of the retry job it decides.
\* late: the exit status of a child that writes the rest of its output and
\* exits between the monitor's read and its exit check; how, removed: what
\* stop() meets if the stall branch calls it; s, launched, created: the child
\* and the output file of a retry job if one is started.
CheckJobStatus ==
    /\ job # None
    /\ \E late \in (IF polls_child(mon) /\ child.alive
                    THEN {None} \cup {Some(c) : c \in ExitCodes} ELSE {None}) :
       \E p \in {get_job_progress(mon, handler, vid_runs[Len(vid_runs)],
                                  IF polls_child(mon) THEN child.pipe ELSE <<>>,
                                  IF late # None THEN late ELSE child.status,
                                  now, ProgressSecsMax)},
          c1 \in {child_after_read(child, polls_child(mon), late)} :
       \E run1 \in {IF p.got.kind = "code"
                    THEN [p.run EXCEPT !.return_code = Some(p.got.code)]
                    ELSE p.run} :
       \E d \in {IF p.got.kind = "code" THEN ladder(job[1], run1, p.got.code)
                 ELSE Decision("none", "", FALSE)},
          how \in (IF p.stopped # None THEN {"term", "kill"} ELSE {"term"}),
          removed \in (IF p.stopped # None /\ TEMP_FILE \in files
                       THEN BOOLEAN ELSE {TRUE}) :
       \E s \in (IF d.tier # "none" THEN JobStreams ELSE {<<>>}),
          launch \in (IF d.tier # "none" THEN Launches ELSE {"fails"}),
          c2 \in {IF p.stopped # None THEN child_after_stop(c1, p.stopped[1], how)
                  ELSE c1},
          f2 \in {IF p.stopped # None
                  THEN files_after_stop(files, p.stopped[1], removed) ELSE files},
          u2 \in {IF p.stopped # None
                  THEN unlinks_after_stop({}, files, p.stopped[1]) ELSE {}} :
       \E r \in {start_transcode_job(p.h, [vid_runs EXCEPT ![Len(vid_runs)] = run1],
                                     f2, TRUE, d.tier = "software", now,
                                     IF launch # "fails" THEN Some(c2.pid + 1)
                                     ELSE None)},
          seen1 \in {IF p.events # <<>> THEN now ELSE seen} :
          IF d.tier # "none"
          THEN /\ mon' = r.job.ffsubproc
               /\ handler' = r.h
               /\ vid_runs' = r.runs
               /\ job' = Some(held(r.job))
               /\ child' = launched_child(c2, s, launch # "fails")
               /\ files' = IF launch = "creates" THEN r.files \cup {TEMP_FILE}
                           ELSE r.files
               /\ unlinks' = unlinks \cup u2
               /\ tiers' = Append(tiers, tier_of(r.job))
               /\ njobs' = njobs + 1
               /\ seen' = now
               /\ written' = now
               /\ result' = [next_job |-> "new", kind |-> "text", text |-> d.report,
                             time |-> <<>>, done |-> d.done]
               /\ call' = CallRecord(job[1], p, c1, c2, run1, u2, d, now - seen1)
          ELSE /\ mon' = p.m
               /\ handler' = p.h
               /\ vid_runs' = [vid_runs EXCEPT ![Len(vid_runs)] = run1]
               /\ job' = IF p.got.kind = "code" THEN None ELSE job
               /\ child' = c2
               /\ files' = f2
               /\ unlinks' = unlinks \cup u2
               /\ tiers' = tiers
               /\ njobs' = njobs
               /\ seen' = seen1
               /\ written' = IF late # None /\ child.todo # <<>> THEN now ELSE written
               /\ result' = IF p.got.kind = "code"
                            THEN [next_job |-> "none", kind |-> "text",
                                  text |-> d.report, time |-> <<>>, done |-> d.done]
                            ELSE [next_job |-> "same", kind |-> p.got.kind,
                                  text |-> "", time |-> p.got.time, done |-> FALSE]
               /\ call' = CallRecord(job[1], p, c1, c2, run1, u2, d, now - seen1)
    /\ UNCHANGED <<now, ret, raised, lastOp, prevOp, prevMon, hist, segs, raced,
                   nstarts, lastRead>>
    /\ UNCHANGED extVars

NextJob == StartTranscode \/ ChildWriteLine \/ JobChildExit \/ Tick \/ CheckJobStatus

SpecJob == Init /\ [][NextJob]_vars

\* ------------- one job polled by get_job_progress alone: specification
\* The caller keeps the Job and keeps calling get_job_progress on it, also
\* after it has returned a terminal code.

\* get_job_progress(job) on the Job the caller holds.  late, how, removed: as
\* in CheckJobStatus.
GetJobProgress ==
    /\ job # None
    /\ \E late \in (IF polls_child(mon) /\ child.alive
                    THEN {None} \cup {Some(c) : c \in ExitCodes} ELSE {None}) :
       \E p \in {get_job_progress(mon, handler, vid_runs[Len(vid_runs)],
                                  IF polls_child(mon) THEN child.pipe ELSE <<>>,
                                  IF late # None THEN late ELSE child.status,
                                  now, ProgressSecsMax)},
          c1 \in {child_after_read(child, polls_child(mon), late)} :
       \E how \in (IF p.stopped # None THEN {"term", "kill"} ELSE {"term"}),
          removed \in (IF p.stopped # None /\ TEMP_FILE \in files
                       THEN BOOLEAN ELSE {TRUE}) :
       \E c2 \in {IF p.stopped # None THEN child_after_stop(c1, p.stopped[1], how)
                  ELSE c1},
          u2 \in {IF p.stopped # None
                  THEN unlinks_after_stop({}, files, p.stopped[1]) ELSE {}},
          seen1 \in {IF p.events # <<>> THEN now ELSE seen} :
          /\ mon' = p.m
          /\ handler' = p.h
          /\ vid_runs' = [vid_runs EXCEPT ![Len(vid_runs)] = p.run]
          /\ child' = c2
          /\ files' = IF p.stopped # None
                      THEN files_after_stop(files, p.stopped[1], removed) ELSE files
          /\ unlinks' = unlinks \cup u2
          /\ seen' = seen1
          /\ written' = IF late # None /\ child.todo # <<>> THEN now ELSE written
          /\ result' = [next_job |-> "same", kind |-> p.got.kind, text |-> "",
                        time |-> p.got.time, done |-> FALSE]
          /\ call' = CallRecord(job[1], p, c1, c2, p.run, u2,
                                Decision("none", "", FALSE), now - seen1)
    /\ UNCHANGED <<now, job, tiers, njobs>>
    /\ UNCHANGED <<ret, raised, lastOp, prevOp, prevMon, hist, segs, raced,
                   nstarts, lastRead>>
    /\ UNCHANGED extVars

\* Time passes while the job is polled, long enough for two formatted
\* progress lines.
LongTick ==
    /\ job # None
    /\ now + TickStep <= MaxProgressTime
    /\ now' = now + TickStep
    /\ UNCHANGED monVars
    /\ UNCHANGED <<handler, vid_runs, job, result, tiers, call, seen, written, njobs>>
    /\ UNCHANGED extVars

NextProgress ==
    StartTranscode \/ ChildWriteLine \/ JobChildExit \/ LongTick \/ GetJobProgress

SpecProgress == Init /\ [][NextProgress]_vars

\* ------------------------- the Failure Classifier alone: specification
\* A finished Run with any captured log of up to MaxLog lines and any exit
\* code; each step applies one of the classifier's functions to it.

\* Lines an encoder logs: the corruption signals of the two tables, a repeat
\* line, the filter messages, and a line that is no signal.
ClassifyLines ==
    { <<"c", "o", "r", "r", "u", "p", "t", " ", "d", "e", "c", "o", "d", "e", "d", " ", "f", "r", "a", "m", "e">>,
      <<"d", "a", "m", "a", "g", "e", "d", " ", "a", "t", " ", "3", " ", "4">>,
      <<"L", "a", "s", "t", " ", "m", "e", "s", "s", "a", "g", "e", " ", "r", "e", "p", "e", "a", "t", "e", "d", " ", "2", " ", "t", "i", "m", "e", "s">>,
      <<"E", "r", "r", "o", "r", " ", "r", "e", "i", "n", "i", "t", "i", "a", "l", "i", "z", "i", "n", "g", " ", "f", "i", "l", "t", "e", "r", "s">>,
      <<"R", "e", "c", "o", "n", "f", "i", "g", "u", "r", "i", "n", "g", " ", "f", "i", "l", "t", "e", "r", " ", "g", "r", "a", "p", "h", " ", "b", "e", "c", "a", "u", "s", "e", " ", "v", "i", "d", "e", "o", " ", "p", "a", "r", "a", "m", "e", "t", "e", "r", "s", " ", "c", "h", "a", "n", "g", "e", "d">>,
      <<"P", "r", "e", "s", "s", " ", "[", "q", "]", " ", "t", "o", " ", "s", "t", "o", "p">> }

Logs == UNION { [1..n -> ClassifyLines] : n \in 0..MaxLog }

\* The probe caches a finished job can meet: empty, or holding an entry
\* for the temp file's path from an earlier run, with and without a full
\* dirty counter.
ProbeCaches ==
    { [NewCache(d) EXCEPT !.cache_data = e, !.disk = e] :
         d \in {0, DIRTY_LIMIT}, e \in {{}, {TEMP_FILE}} }

\* What a classifier function found: its verdict (flag), and for the scoring
\* the score and whether the log was scanned.
NoVerdict ==
    [made |-> FALSE, op |-> "none", flag |-> FALSE, score |-> Score(0, 0),
     scanned |-> FALSE, texts_before |-> <<>>, success |-> FALSE,
     probe |-> None, raised |-> FALSE, file_state |-> "missing",
     probe_ok |-> FALSE, cache_before |-> NewCache(0), finished |-> FALSE]

Verdict(op, flag, score, scanned) ==
    [made |-> TRUE, op |-> op, flag |-> flag, score |-> score,
     scanned |-> scanned, texts_before |-> vid_runs[1].texts,
     success |-> FALSE, probe |-> None, raised |-> FALSE, file_state |-> "missing",
     probe_ok |-> FALSE, cache_before |-> cache, finished |-> FALSE]

ClassifyInit ==
    /\ MonInit
    /\ now = 0
    /\ handler = [progress_line_mono |-> 0, prev_ffmpeg_out_mono |-> 0]
    /\ vid_runs \in { << [texts |-> t, return_code |-> Some(c),
                          descr |-> "initial run", command |-> ffmpeg_cmd(FALSE, FALSE)] >> :
                       t \in Logs, c \in ExitCodes }
    /\ job = None
    /\ result = NoResult
    /\ tiers = <<>>
    /\ call = NoVerdict
    /\ seen = 0
    /\ written = 0
    /\ njobs = 0
    /\ other = NoPeer
    /\ cache \in ProbeCaches

\* _should_retry_with_error_tolerance(vid)
ShouldRetryTolerant ==
    /\ call' = Verdict("tolerant", should_retry_with_error_tolerance(vid_runs[1]),
                       Score(0, 0), FALSE)
    /\ UNCHANGED monVars
    /\ UNCHANGED <<now, handler, vid_runs, job, result, tiers, seen, written, njobs>>
    /\ UNCHANGED extVars

\* _should_retry_with_software(vid)
ShouldRetrySoftware ==
    /\ call' = Verdict("software", should_retry_with_software(vid_runs[1]),
                       Score(0, 0), FALSE)
    /\ UNCHANGED monVars
    /\ UNCHANGED <<now, handler, vid_runs, job, result, tiers, seen, written, njobs>>
    /\ UNCHANGED extVars

\* elaborate_err(vid), once for the Run; vid.return_code, which the appended
\* line quotes, belongs to the Vid and is either unset or the Run's code.
ElaborateErr ==
    /\ result.kind # "finished"
    /\ \E vid_return_code \in {None, vid_runs[1].return_code} :
       \E r \in {elaborate_err(vid_runs[1], vid_return_code)} :
          /\ vid_runs' = <<r.run>>
          /\ call' = Verdict("elaborate", r.run # vid_runs[1], r.score, r.scanned)
    /\ result' = [NoResult EXCEPT !.kind = "finished"]
    /\ UNCHANGED monVars
    /\ UNCHANGED <<now, handler, job, tiers, seen, written, njobs>>
    /\ UNCHANGED extVars

\* finish_transcode_job(success, job), once for the Run: the caller's success
\* flag, the state of the temp file (missing, or present and changed or the
\* same since it was cached) and the outcome of probing it (which decide
\* what probe_cache.get does), and whether the shrink check rejects
\* the result are the call's inputs.  probe_cache.get is called for a job
\* passed as a success only; an exception it raises leaves
\* finish_transcode_job at once.
FinishTranscodeJob ==
    /\ result.kind # "finished"
    /\ \E success \in BOOLEAN, file_state \in {"missing", "changed", "same"}, probe_ok \in BOOLEAN,
          rejected \in BOOLEAN, vid_return_code \in {None, vid_runs[1].return_code} :
       \E g \in {IF success THEN get(cache, TEMP_FILE, file_state, probe_ok)
                 ELSE [raised |-> FALSE, meta |-> None, c |-> cache]} :
       \E r \in {IF g.raised THEN [run |-> vid_runs[1], success |-> FALSE, probe |-> None]
                 ELSE finish_transcode_job(vid_runs[1], vid_return_code, success,
                                           g.meta, rejected)} :
          /\ vid_runs' = <<r.run>>
          /\ cache' = g.c
          /\ call' = [Verdict("finish", r.run # vid_runs[1], Score(0, 0), FALSE)
                         EXCEPT !.success = success, !.probe = g.meta,
                                !.raised = g.raised, !.file_state = file_state,
                                !.probe_ok = probe_ok, !.cache_before = cache,
                                !.finished = r.success]
    /\ result' = [NoResult EXCEPT !.kind = "finished"]
    /\ UNCHANGED monVars
    /\ UNCHANGED <<now, handler, job, tiers, seen, written, njobs, other>>

NextClassify ==
    ShouldRetryTolerant \/ ShouldRetrySoftware \/ ElaborateErr \/ FinishTranscodeJob

SpecClassify == ClassifyInit /\ [][NextClassify]_vars

\* ---------- two Jobs supervised through one JobHandler: specification
\* The Job of the first Vid is the one of StartTranscode, ChildWriteLine and
\* GetJobProgress; a second Vid's Job is started through the same JobHandler
\* and polled in turn with the first.  Both children keep running.

\* start_transcode_job(vid) for the second Vid, whose temp file, TEMP.b.mkv,
\* does not exist; its encoder writes nothing, or a progress group.
StartSecond ==
    /\ ~other.started
    /\ \E s \in { <<>>, <<"f", "r", "a", "m", "e", "=", "7", LF, "o", "u", "t", "_", "t", "i", "m", "e", "=", "0", "0", ":", "0", "0", ":", "0", "1", ".", "5", LF, "p", "r", "o", "g", "r", "e", "s", "s", "=", "c", LF>> } :
       \E r \in {start_transcode_job(handler, <<>>, {}, FALSE, FALSE, now, Some(1))} :
          /\ handler' = r.h
          /\ other' = [job |-> Some([held(r.job) EXCEPT !.temp_file = "TEMP.b.mkv"]),
                       mon |-> [r.job.ffsubproc EXCEPT
                                   !.temp_file = Some("TEMP.b.mkv")],
                       child |-> launched_child(NoChild, s, TRUE),
                       runs |-> r.runs, seen |-> now, passed |-> now,
                       call |-> NoPeer.call, started |-> TRUE]
    /\ UNCHANGED monVars
    /\ UNCHANGED <<now, vid_runs, job, result, tiers, call, seen, written, njobs>>
    /\ UNCHANGED cache

\* The second job's child writes its next line to stderr.
SecondWriteLine ==
    /\ other.job # None
    /\ other.child.alive
    /\ other.child.todo # <<>>
    /\ LET n == line_end(other.child.todo, 1) - 1
       IN  other' = [other EXCEPT
                        !.child.pipe = @ \o SubSeq(other.child.todo, 1, n),
                        !.child.todo = SubSeq(@, n + 1, Len(@))]
    /\ UNCHANGED <<monVars, jobVars, cache>>

\* Time passes while the second job is live.
Tock ==
    /\ other.job # None
    /\ now + TickStep <= MaxTime
    /\ now' = now + TickStep
    /\ UNCHANGED monVars
    /\ UNCHANGED <<handler, vid_runs, job, result, tiers, call, seen, written, njobs>>
    /\ UNCHANGED extVars

\* get_job_progress(job) on the second Job.
GetSecondProgress ==
    /\ other.job # None
    /\ \E p \in {get_job_progress(other.mon, handler, other.runs[Len(other.runs)],
                                  IF polls_child(other.mon) THEN other.child.pipe
                                  ELSE <<>>,
                                  other.child.status, now, ProgressSecsMax)},
          c1 \in {child_after_read(other.child, polls_child(other.mon), None)} :
       \E seen1 \in {IF p.events # <<>> THEN now ELSE other.seen} :
          /\ handler' = p.h
          /\ other' = [other EXCEPT
                !.mon = p.m,
                !.runs[Len(other.runs)] = p.run,
                !.child = IF p.stopped # None
                          THEN child_after_stop(c1, p.stopped[1], "term") ELSE c1,
                !.seen = seen1,
                !.passed = IF p.h.progress_line_mono # handler.progress_line_mono
                           THEN now ELSE @,
                !.call = [made |-> TRUE, got |-> p.got, polled |-> p.polled,
                          alive |-> (other.mon.process # None /\ c1.alive),
                          idle_seen |-> now - seen1,
                          since_passed |-> now - other.passed,
                          events |-> p.events]]
    /\ UNCHANGED monVars
    /\ UNCHANGED <<now, vid_runs, job, result, tiers, call, seen, written, njobs>>
    /\ UNCHANGED cache

NextTwoJobs ==
    \/ StartTranscode \/ ChildWriteLine \/ GetJobProgress
    \/ StartSecond \/ SecondWriteLine \/ GetSecondProgress
    \/ Tock

SpecTwoJobs == Init /\ [][NextTwoJobs]_vars

\* ------------------- one batch_get_or_probe call: specification
\* The caller's thread and one executor thread per path to probe.  Every
\* path is a cache miss; the dirty count the call meets is what earlier
\* get() calls and purged entries left, here 0, 98, 99 or 100.

\* The threads that are inside store().
InStore(c) ==
    (IF c.main.pc \in {"store", "final_store"} THEN {MAIN} ELSE {})
    \cup {w \in 1..MaxProbes : c.workers[w].pc = "storing"}

ProbeInit ==
    /\ MonInit
    /\ JobInit
    /\ other = NoPeer
    /\ cache \in {NewCache(d) : d \in {0, DIRTY_LIMIT - 2, DIRTY_LIMIT - 1,
                                       DIRTY_LIMIT}}

\* batch_get_or_probe up to the submission of the probes: metas[w] is
\* whether ffprobe will give metadata for path w.
BatchGetOrProbe ==
    /\ cache.main.pc = "idle"
    /\ \E metas \in [1..MaxProbes -> BOOLEAN] :
          cache' = [cache EXCEPT
                       !.main = [pc |-> "wait", i |-> 1, snap |-> {}],
                       !.workers = [w \in 1..MaxProbes |->
                                       [pc |-> "queued", meta |-> metas[w],
                                        snap |-> {}]]]
    /\ UNCHANGED <<monVars, jobVars, other>>

\* An executor thread runs _get_metadata_with_ffprobe to its dirty-count
\* check: with metadata and a dirty count of 100 or more it enters store(),
\* which dumps the table.
WorkerProbe ==
    /\ \E w \in 1..MaxProbes :
          /\ cache.workers[w].pc = "queued"
          /\ cache' = IF cache.workers[w].meta /\ cache.dirty_count >= DIRTY_LIMIT
                      THEN [cache EXCEPT !.workers[w].pc = "storing",
                                         !.workers[w].snap = store_dump(cache)]
                      ELSE [cache EXCEPT !.workers[w].pc = "done"]
    /\ UNCHANGED <<monVars, jobVars, other>>

\* An executor thread finishes its store() and returns the metadata.
WorkerStoreEnd ==
    /\ \E w \in 1..MaxProbes :
          /\ cache.workers[w].pc = "storing"
          /\ cache' = [store_replace(cache, cache.workers[w].snap)
                          EXCEPT !.workers[w].pc = "done"]
    /\ UNCHANGED <<monVars, jobVars, other>>

\* The caller has the result of the next future and takes the lock.
MainAcquire ==
    /\ cache.main.pc = "wait"
    /\ cache.workers[cache.main.i].pc = "done"
    /\ cache.lock = None
    /\ cache' = [cache EXCEPT !.lock = Some(MAIN), !.main.pc = "merge"]
    /\ UNCHANGED <<monVars, jobVars, other>>

\* Under the lock: _set_cache (which raises for a result of None, caught by
\* the loop's except), results[filepath] = meta, and the dirty-count check
\* that enters store().
MainMerge ==
    /\ cache.main.pc = "merge"
    /\ \E c1 \in {set_cache(cache, cache.main.i)} :
          cache' = IF ~cache.workers[cache.main.i].meta
                   THEN [cache EXCEPT !.main.pc = "release"]
                   ELSE [c1 EXCEPT
                            !.results = @ \cup {cache.main.i},
                            !.torn = @ \/ (InStore(cache) \ {MAIN} # {}),
                            !.main.pc = IF c1.dirty_count >= DIRTY_LIMIT
                                        THEN "store" ELSE "release",
                            !.main.snap = IF c1.dirty_count >= DIRTY_LIMIT
                                          THEN store_dump(c1) ELSE {}]
    /\ UNCHANGED <<monVars, jobVars, other>>

\* The caller finishes a store().
MainStoreEnd ==
    /\ cache.main.pc \in {"store", "final_store"}
    /\ cache' = [store_replace(cache, cache.main.snap)
                    EXCEPT !.main.pc = IF cache.main.pc = "store" THEN "release"
                                       ELSE "final_release"]
    /\ UNCHANGED <<monVars, jobVars, other>>

\* The caller leaves a 'with self._cache_lock' block.
MainRelease ==
    /\ cache.main.pc \in {"release", "final_release"}
    /\ cache' = [cache EXCEPT
                    !.lock = None,
                    !.main.pc = IF cache.main.pc = "final_release" THEN "done"
                                ELSE IF cache.main.i < MaxProbes THEN "wait"
                                ELSE "final",
                    !.main.i = IF cache.main.pc = "release" /\ @ < MaxProbes
                               THEN @ + 1 ELSE @]
    /\ UNCHANGED <<monVars, jobVars, other>>

\* '3. Final Step': the lock is taken and store() called, which dumps the
\* table if the dirty count is not zero.
MainFinal ==
    /\ cache.main.pc = "final"
    /\ cache.lock = None
    /\ cache' = [cache EXCEPT
                    !.lock = Some(MAIN),
                    !.main.pc = IF cache.dirty_count > 0 THEN "final_store"
                                ELSE "final_release",
                    !.main.snap = IF cache.dirty_count > 0 THEN store_dump(cache)
                                  ELSE {}]
    /\ UNCHANGED <<monVars, jobVars, other>>

NextProbe ==
    \/ BatchGetOrProbe \/ WorkerProbe \/ WorkerStoreEnd
    \/ MainAcquire \/ MainMerge \/ MainStoreEnd \/ MainRelease \/ MainFinal

SpecProbe == ProbeInit /\ [][NextProbe]_vars

\* =============================================================== claims

\* The events the segments read so far must have produced: each segment that
\* was closed by a flush is split and classified whole and its last fragment
\* emitted as a final line when non-empty after trimming; the open (last)
\* segment's last fragment is still the carry-over.
RECURSIVE replay(_, _, _)
replay(ss, q, buf) ==
    IF ss = <<>> THEN q
    ELSE LET f == split_lf(Head(ss))
             r == process_lines(SubSeq(f, 1, Len(f) - 1), q, buf)
             l_str == strip(decode(f[Len(f)]))
             q1 == IF Tail(ss) # <<>> /\ l_str # <<>>
                   THEN Append(r.output_queue, l_str) ELSE r.output_queue
         IN  replay(Tail(ss), q1, r.progress_buffer)

\* C1: poll() returns an exit code only with the event queue empty and the
\* carry-over flushed, and by then every line read from the child - a trailing
\* fragment without a line feed included - has been returned by an earlier
\* poll().  (Specification SpecParse: one child, poll() calls only.)
C1_ExitCodeAfterDrain ==
    ret.kind = "code" =>
        /\ mon.output_queue = <<>>
        /\ mon.partial_line = <<>>
        /\ hist = replay(segs, <<>>, EmptyDict)

\* C1's case: the stream $a e-acute xFF LF b$ was read, the child exited, and
\* the code came after the line and after the trailing fragment 'b'.
C1_Witness ==
    /\ ret.kind = "code"
    /\ child.stream = StreamText
    /\ hist = << <<"a", "U+00E9">>, <<"b">> >>

\* What poll() returns, up to the exit code, when the whole stream s arrives
\* in one read and the child has exited by the exit check.
one_read(s) ==
    LET r == poll([NewMon EXCEPT !.process = Some(1)], s, Some(0))
    IN  IF r.ret.kind = "line" THEN <<r.ret.line>> \o r.m.output_queue ELSE <<>>

\* C2 (as claimed): however the child's stream is cut into read chunks, the
\* lines and snapshots poll() returns before the exit code are those of one
\* contiguous read of the stream.
C2_ChunkingEquivalence ==
    ret.kind = "code" => hist = one_read(child.stream)

\* C2, where it holds: the same, for runs in which the child did not write
\* and exit between a poll()'s read and its exit check.
C2_EquivalenceWithoutLateWrite ==
    (ret.kind = "code" /\ ~raced) => hist = one_read(child.stream)

\* C5: stop() never raises and leaves the monitor not running - no process
\* handle, empty carry-over, empty accumulator, no temp file, the code given -
\* also on a monitor that was never started; a second stop(c) after stop(c)
\* changes nothing.
C5_StopIdempotent ==
    lastOp.op = "stop" =>
        /\ ~raised
        /\ mon.process = None
        /\ mon.partial_line = <<>>
        /\ mon.progress_buffer = EmptyDict
        /\ mon.temp_file = None
        /\ mon.return_code = Some(lastOp.code)
        /\ (prevOp = lastOp => mon = prevMon)

\* C5's cases: stop() on a monitor never started, and stop(c) twice on a
\* monitor that held a running child with a carry-over, an accumulated key and
\* a temp file when it was first stopped.
C5_Witness ==
    /\ lastOp.op = "stop"
    /\ prevOp = lastOp
    /\ child.status = Some(SIGTERM_STATUS)
    /\ child.todo = <<>>
    /\ mon.output_queue # <<>>
    /\ "TEMP.a.mkv" \in unlinks

C5_WitnessNeverStarted ==
    /\ lastOp.op = "stop"
    /\ prevOp.op = "init"
    /\ nstarts = 0

\* The snapshots a sequence of complete lines must produce: one per
\* terminator line, built from the progress lines since the previous
\* terminator only; a field takes the value of the group's last line with its
\* key, or its default.
is_progress_line(l) == l # <<>> /\ HasEq(l) /\ KeyOf(l) \in PROGRESS_KEYS

field(group, k, default) ==
    LET at == {i \in 1..Len(group) : KeyOf(group[i]) = k}
    IN  IF at = {} THEN default
        ELSE ValOf(group[CHOOSE i \in at : \A j \in at : j <= i])

snapshot(group) ==
    PROGRESS_PREFIX \o <<"f", "r", "a", "m", "e", "=">> \o field(group, K_frame, <<"0">>)
    \o <<" ", "f", "p", "s", "=">> \o field(group, K_fps, <<"0">>)
    \o <<" ", "b", "i", "t", "r", "a", "t", "e", "=">> \o field(group, K_bitrate, <<"0">>)
    \o <<" ", "t", "i", "m", "e", "=">> \o field(group, K_out_time, <<"0", "0", ":", "0", "0", ":", "0", "0", ".", "0", "0">>)
    \o <<" ", "s", "p", "e", "e", "d", "=">> \o field(group, K_speed, <<"0">>) \o <<"x">>

RECURSIVE snapshots_of(_, _)
snapshots_of(lines, group) ==
    IF lines = <<>> THEN <<>>
    ELSE IF ~is_progress_line(Head(lines)) THEN snapshots_of(Tail(lines), group)
    ELSE IF KeyOf(Head(lines)) = K_progress
         THEN <<snapshot(group)>> \o snapshots_of(Tail(lines), <<>>)
    ELSE snapshots_of(Tail(lines), Append(group, Head(lines)))

IsSnapshot(e) == startswith(e, PROGRESS_PREFIX)

\* C9: the snapshots emitted are exactly one per progress group that ended
\* with the terminator key, whatever the order of the group's keys, each with
\* the group's own values and the defaults for absent keys; nothing of an
\* earlier group appears in a later one.
C9_OneSnapshotPerGroup ==
    SelectSeq(hist \o mon.output_queue, IsSnapshot)
        = snapshots_of(framed_lines(segs), <<>>)

\* C9's case: a group with speed before frame and no fps, then a second group
\* holding only fps: two snapshots, the second with frame and speed defaulted.
C9_Witness ==
    /\ framed_lines(segs) = << <<"s", "p", "e", "e", "d", "=", "2">>, <<"f", "r", "a", "m", "e", "=", "7">>, <<"p", "r", "o", "g", "r", "e", "s", "s", "=", "c">>,
                               <<"f", "p", "s", "=", "1">>, <<"p", "r", "o", "g", "r", "e", "s", "s", "=", "c">> >>
    /\ mon.output_queue =
          << <<"P", "R", "O", "G", "R", "E", "S", "S", ":", "f", "r", "a", "m", "e", "=", "7", " ", "f", "p", "s", "=", "0", " ", "b", "i", "t", "r", "a", "t", "e", "=", "0", " ", "t", "i", "m", "e", "=", "0", "0", ":", "0", "0", ":", "0", "0", ".", "0", "0", " ", "s", "p", "e", "e", "d", "=", "2", "x">>,
             <<"P", "R", "O", "G", "R", "E", "S", "S", ":", "f", "r", "a", "m", "e", "=", "0", " ", "f", "p", "s", "=", "1", " ", "b", "i", "t", "r", "a", "t", "e", "=", "0", " ", "t", "i", "m", "e", "=", "0", "0", ":", "0", "0", ":", "0", "0", ".", "0", "0", " ", "s", "p", "e", "e", "d", "=", "0", "x">> >>

\* The state after a poll() whose single read returned the whole example
\* stream, and the events that poll() produced.
ExampleInOneRead ==
    /\ lastOp.op = "poll"
    /\ lastRead = StreamExample

EventsOfLastPoll ==
    (IF ret.kind = "line" THEN <<ret.line>> ELSE <<>>) \o mon.output_queue

without_prefix(e) == SubSeq(e, Len(PROGRESS_PREFIX) + 1, Len(e))

\* C10 (as claimed): the four lines frame=100, time=00:01:30.50, speed=2.0,
\* progress=continue in one read give exactly one snapshot, whose time field
\* is the time= line's value.
C10_ExampleAsClaimed ==
    ExampleInOneRead =>
        LET snaps == SelectSeq(EventsOfLastPoll, IsSnapshot)
        IN  /\ Len(snaps) = 1
            /\ without_prefix(snaps[1])
                  = <<"f", "r", "a", "m", "e", "=", "1", "0", "0", " ", "f", "p", "s", "=", "0", " ", "b", "i", "t", "r", "a", "t", "e", "=", "0", " ", "t", "i", "m", "e", "=", "0", "0", ":", "0", "1", ":", "3", "0", ".", "5", "0", " ", "s", "p", "e", "e", "d", "=", "2", ".", "0", "x">>

\* C10 (amended): the four lines in one read give the log line
\* 'time=00:01:30.50' ('time' is not a progress key) and then exactly one
\* snapshot, whose time field is the default because no out_time line came.
C10_ExampleSnapshot ==
    ExampleInOneRead =>
        EventsOfLastPoll =
            << <<"t", "i", "m", "e", "=", "0", "0", ":", "0", "1", ":", "3", "0", ".", "5", "0">>,
               <<"P", "R", "O", "G", "R", "E", "S", "S", ":", "f", "r", "a", "m", "e", "=", "1", "0", "0", " ", "f", "p", "s", "=", "0", " ", "b", "i", "t", "r", "a", "t", "e", "=", "0", " ", "t", "i", "m", "e", "=", "0", "0", ":", "0", "0", ":", "0", "0", ".", "0", "0", " ", "s", "p", "e", "e", "d", "=", "2", ".", "0", "x">> >>

C10_Witness ==
    /\ ExampleInOneRead
    /\ ret.kind = "none"
    /\ Len(mon.output_queue) = 2

\* ------------------------------------------------------ the retry ladder

LadderOrder == <<"initial", "tolerant", "software">>

\* C3: within one transcode of a Vid the jobs started are the initial job,
\* then at most one tolerant retry, then at most one software retry, in that
\* order: the tiers started so far are always a prefix of initial, tolerant,
\* software, so no tier is entered twice and at most two retries are started.
C3_LadderVisitsEachTierOnce ==
    \E n \in 0..Len(LadderOrder) : tiers = SubSeq(LadderOrder, 1, n)

\* A transcode that went through all three tiers and is done.
C3_Witness ==
    /\ tiers = LadderOrder
    /\ result.done
    /\ njobs = 3

\* What a stall must leave behind: the sentinel 254 as terminal code, the
\* marker as the last text of the current Run, the child no longer running,
\* and os.unlink called on the job's temp file if it existed.
StallHandled ==
    /\ call.got = GotCode(STALL_CODE)
    /\ call.run.texts = Append(call.texts_before, <<"P", "R", "O", "G", "R", "E", "S", "S", " ", "T", "I", "M", "E", "O", "U", "T">>)
    /\ call.run.return_code = Some(STALL_CODE)
    /\ ~call.stopped_alive
    /\ (call.temp_existed => call.job.temp_file \in call.unlinked)

\* The call met a running child and its poll() returned no event.
SawNoEvent == call.made /\ call.alive /\ call.polled = "none"

Terminal == call.made /\ call.got.kind = "code"

\* Rule 1 applies to the job the call was made on.
TolerantRuleApplies ==
    /\ Terminal
    /\ ~call.job.is_retry /\ ~call.job.is_software_fallback
    /\ call.got.code # 0
    /\ should_retry_with_error_tolerance(call.run)

\* Rule 2 applies to the job the call was made on.
SoftwareRuleApplies ==
    /\ Terminal
    /\ call.job.is_retry /\ ~call.job.is_software_fallback
    /\ call.got.code # 0
    /\ should_retry_with_software(call.run)

\* The call started exactly one new job, which the caller now holds.
StartedOneJob ==
    /\ result.next_job = "new"
    /\ njobs = call.njobs_before + 1
    /\ job # None
    /\ ~result.done

\* C6 as stated: rule 1 starts exactly one new job flagged is_retry and not
\* is_software_fallback and returns (new job, "RETRYING (Tolerant)", not done).
C6_TolerantRetryAsClaimed ==
    TolerantRuleApplies =>
        /\ StartedOneJob
        /\ job[1].is_retry /\ ~job[1].is_software_fallback
        /\ result.text = "RETRYING (Tolerant)"

\* C6, amended: the same with the message the code returns,
\* "RETRYING (Tolerant)...".
C6_TolerantRetry ==
    TolerantRuleApplies =>
        /\ StartedOneJob
        /\ job[1].is_retry /\ ~job[1].is_software_fallback
        /\ result.text = "RETRYING (Tolerant)..."

\* The initial job ended with exit code 1 after the line "Error
\* reinitializing filters" and a tolerant retry was started.
C6_Witness ==
    /\ TolerantRuleApplies
    /\ call.got.code = 1
    /\ call.run.texts = << <<"E", "r", "r", "o", "r", " ", "r", "e", "i", "n", "i", "t", "i", "a", "l", "i", "z", "i", "n", "g", " ", "f", "i", "l", "t", "e", "r", "s">> >>
    /\ tiers = <<"initial", "tolerant">>

\* A software retry was started by the last call.
SoftwareRetryStarted ==
    /\ call.made
    /\ result.next_job = "new"
    /\ job # None
    /\ job[1].is_software_fallback

\* C7 as stated: a software retry is started if and only if rule 2 applies;
\* the new job is flagged is_software_fallback and is_retry, and the report
\* is "RETRYING (Software)".
C7_SoftwareRetryAsClaimed ==
    /\ SoftwareRetryStarted <=> SoftwareRuleApplies
    /\ SoftwareRetryStarted =>
          /\ StartedOneJob
          /\ job[1].is_retry
          /\ result.text = "RETRYING (Software)"

\* C7, amended: the same with the message the code returns,
\* "RETRYING (Software)...".
C7_SoftwareRetry ==
    /\ SoftwareRetryStarted <=> SoftwareRuleApplies
    /\ SoftwareRetryStarted =>
          /\ StartedOneJob
          /\ job[1].is_retry
          /\ result.text = "RETRYING (Software)..."

\* A tolerant retry failed with a software-eligible Run and the software
\* retry was started.
C7_Witness ==
    /\ SoftwareRetryStarted
    /\ SoftwareRuleApplies
    /\ tiers = LadderOrder

\* The status rule 3 gives the job the call was made on.
ExpectedStatus ==
    IF call.got.code # 0 THEN "ERR"
    ELSE IF call.job.is_software_fallback THEN "OK3"
    ELSE IF call.job.is_retry THEN "OK2"
    ELSE " OK"

\* C8: on a terminal code to which neither retry rule applies the call
\* returns (no next job, status, done) with status ' OK', 'OK2' or 'OK3' by
\* tier for exit 0 and 'ERR' for any other code; done is true exactly when no
\* next job is returned; while the job runs the same job is returned, not
\* done.
C8_FinalStatus ==
    call.made =>
        /\ (Terminal /\ ~TolerantRuleApplies /\ ~SoftwareRuleApplies) =>
              /\ result.next_job = "none"
              /\ job = None
              /\ result.done
              /\ result.kind = "text"
              /\ result.text = ExpectedStatus
        /\ result.done <=> result.next_job = "none"
        /\ ~Terminal =>
              /\ result.next_job = "same"
              /\ job = Some(call.job)
              /\ ~result.done

\* A software retry ended with exit 0: software-recovered.
C8_Witness ==
    /\ Terminal
    /\ call.job.is_software_fallback
    /\ call.got.code = 0
    /\ result.done
    /\ result.text = "OK3"


\* ---- C11
\* The log of the scoring scenario: three corrupt-frame lines and a repeat
\* line.
ScenarioLog ==
    << <<"c", "o", "r", "r", "u", "p", "t", " ", "d", "e", "c", "o", "d", "e", "d", " ", "f", "r", "a", "m", "e">>, <<"c", "o", "r", "r", "u", "p", "t", " ", "d", "e", "c", "o", "d", "e", "d", " ", "f", "r", "a", "m", "e">>,
       <<"c", "o", "r", "r", "u", "p", "t", " ", "d", "e", "c", "o", "d", "e", "d", " ", "f", "r", "a", "m", "e">>, <<"L", "a", "s", "t", " ", "m", "e", "s", "s", "a", "g", "e", " ", "r", "e", "p", "e", "a", "t", "e", "d", " ", "2", " ", "t", "i", "m", "e", "s">> >>

ScenarioScored ==
    call.made /\ call.op = "elaborate" /\ call.scanned
    /\ call.texts_before = ScenarioLog

\* C11: scoring three "corrupt decoded frame" lines followed by "Last
\* message repeated 2 times" gives total severity 10+10+10+20 = 50, which
\* reaches the confirmed-corruption threshold 30 (the CORRUPT VIDEO line
\* quoting 50 is appended).
C11_ScenarioSeverity ==
    ScenarioScored =>
        /\ call.score.total_severity = 50
        /\ call.score.total_severity >= SEVERITY_THRESHOLD
        /\ call.flag
        /\ Len(vid_runs[1].texts) = Len(ScenarioLog) + 1
        /\ startswith(vid_runs[1].texts[Len(ScenarioLog) + 1],
                      <<"C", "O", "R", "R", "U", "P", "T", " ", "V", "I", "D", "E", "O", ":", " ", "T", "o", "t", "a", "l", " ", "S", "e", "v", "e", "r", "i", "t", "y", " ", "S", "c", "o", "r", "e", " ", "5", "0", " ", "f", "r", "o", "m", " ">>)

C11_Witness == ScenarioScored /\ call.flag

\* ---- C20
\* The Failure Classifier's corruption severity of a log.
severity(texts) == score_lines(texts, 0, 0, 0).total_severity

TolerantChecked ==
    call.made /\ call.op = "tolerant" /\ vid_runs[1].return_code # Some(0)

\* C20: for a non-zero exit code the tolerant-retry signal is raised if and
\* only if a captured line contains one of the fixed filter messages or the
\* Run's corruption severity, as the Failure Classifier scores it (the
\* weight table, a repeat line adding N times the previous matched weight),
\* is at least 20.
C20_TolerantSignalAsClaimed ==
    TolerantChecked =>
        (call.flag <=> (\/ any_signal(filter_error_signals, vid_runs[1].texts)
                        \/ severity(vid_runs[1].texts) >= 20))

\* ---- C12
RejectedStart == lastOp.op = "start" /\ prevMon.process # None

\* C12: the monitor holds at most one child at a time.  No child runs that
\* the monitor does not hold, the process held is the child last launched
\* (the one Poll reads and Stop ends), and start() on a monitor that holds a
\* process raises and leaves the held process in place.
C12_OneChildAtATime ==
    /\ mon.process = None => ~child.alive
    /\ mon.process # None => mon.process = Some(child.pid)
    /\ RejectedStart => (raised /\ mon.process = prevMon.process)

C12_Witness == RejectedStart /\ raised /\ child.alive

\* ---- C13
\* start() on a monitor holding no process, with the launch failing.
LaunchFailed == prevMon.process = None /\ mon.process = None

\* C13: when the child cannot be launched, start() does not raise, records
\* 127 and holds no process; the following poll() returns 127 as a terminal
\* integer, and so does every poll() of a monitor in that state.
C13_LaunchFailureAsClaimed ==
    /\ (lastOp.op = "start" /\ LaunchFailed)
          => (~raised /\ mon.return_code = Some(127))
    /\ (lastOp.op = "poll" /\ prevOp.op = "start" /\ prevMon.process = None)
          => (ret = CodeEvent(127) /\ mon.process = None
              /\ mon.return_code = Some(127))

\* The same for a start() on a monitor whose queue is empty.
C13_LaunchFailureWithEmptyQueue ==
    /\ (lastOp.op = "start" /\ LaunchFailed)
          => (~raised /\ mon.return_code = Some(127))
    /\ (lastOp.op = "poll" /\ prevOp.op = "start" /\ prevMon.process = None
        /\ prevMon.output_queue = <<>>)
          => (ret = CodeEvent(127) /\ mon = prevMon)

\* ---- C14
\* The last operation was a poll() that read no bytes from a child that is
\* still running.
IdlePoll ==
    lastOp.op = "poll" /\ polls_child(prevMon) /\ lastRead = <<>> /\ child.alive

\* A poll() of a monitor that holds no process and has nothing queued.
PollWithoutProcess ==
    lastOp.op = "poll" /\ prevMon.process = None /\ prevMon.output_queue = <<>>

\* C14: poll() never waits for the child.  A poll() that finds the child
\* alive and no bytes to read returns 'no event yet' and leaves the
\* carry-over, the accumulator and the queue as they were, so extra polls do
\* not change the events emitted; a poll() of a monitor without a process
\* returns the recorded code (none if never started) and changes nothing.
C14_PollNeverWaits ==
    /\ IdlePoll => (ret = NoEvent /\ mon = prevMon)
    /\ PollWithoutProcess => (ret = ReturnCode(prevMon.return_code) /\ mon = prevMon)

C14_Witness == IdlePoll /\ prevMon.partial_line # <<>>

\* ---- C15
\* C15: while the child has not exited, poll() returns 'no event yet' only
\* with the event queue empty: a poll() whose read produced events returns
\* the first of them.
C15_NoEventOnlyWithEmptyQueue ==
    (lastOp.op = "poll" /\ ret = NoEvent /\ mon.process # None)
        => mon.output_queue = <<>>

\* ---- C16
\* C16: for a child that exits on its own with status c, the integer poll()
\* returns is c, and once poll() has returned it every later poll() returns
\* the same c, never a line and never 'no event yet'.
C16_ExitCodeAbsorbing ==
    /\ []((ret.kind = "code" /\ child.pid # 0) => child.status = Some(ret.code))
    /\ [][ret.kind = "code" => ret' = ret]_vars

C16_Witness ==
    /\ lastOp.op = "poll" /\ prevOp.op = "poll" /\ child.pid # 0
    /\ ret.kind = "code" /\ prevMon.process = None
    /\ child.status = Some(1)

\* ---- C17
\* The Run of the job the last check_job_status call was made on, as the
\* call left it in vid.runs: the last Run, or the one before it when the
\* call started a retry job.
RunOfLastCall ==
    vid_runs[Len(vid_runs) - (IF call.started = "none" THEN 0 ELSE 1)]

\* C17: while a Job is live, Vid.runs is not empty, holds one Run per job
\* started, and its last Run, the Job's current Run, has no exit code; when
\* a check_job_status call gets a terminal integer from get_job_progress,
\* the Run of that Job holds that integer as its exit code from that call on.
C17_CurrentRun ==
    /\ job # None =>
          /\ vid_runs # <<>>
          /\ Len(vid_runs) = Len(tiers)
          /\ vid_runs[Len(vid_runs)].return_code = None
    /\ (call.made /\ call.got.kind = "code") =>
          /\ call.run.return_code = Some(call.got.code)
          /\ RunOfLastCall = call.run

C17_Witness ==
    /\ call.made /\ call.got.kind = "code" /\ call.started = "tolerant"
    /\ job # None /\ Len(vid_runs) = 2
    /\ vid_runs[1].return_code = Some(1)

\* ---- C18
ExitedWithZero == call.made /\ call.got = GotCode(0)

\* C18: a Run with exit code 0 is never classified as failing: whatever its
\* log holds, the tolerant check and the software check return false for
\* it, and check_job_status starts no retry, on every tier.
C18_ZeroNeverFailing ==
    ExitedWithZero =>
        /\ ~should_retry_with_error_tolerance(call.run)
        /\ ~should_retry_with_software(call.run)
        /\ call.started = "none"
        /\ job = None
        /\ result.done

C18_Witness ==
    /\ ExitedWithZero
    /\ call.job.is_retry /\ ~call.job.is_software_fallback
    /\ any_signal(filter_reconfig_signals, call.run.texts)

\* ---- C19
\* C19: TERMINATED is absorbing: once get_job_progress has returned an
\* integer for a job, every later get_job_progress call for that job
\* returns the same integer.
C19_TerminatedAbsorbing ==
    [][(call.made /\ call.got.kind = "code") => call'.got = call.got]_vars

\* ---- C21
\* The Run as the last classifier call found it.
RunClassified == [vid_runs[1] EXCEPT !.texts = call.texts_before]

SoftwareChecked == call.made /\ call.op = "software"

has_line(texts, signal) == \E j \in 1..Len(texts) : contains(texts[j], signal)

count_lines(texts, signal) ==
    Cardinality({j \in 1..Len(texts) : contains(texts[j], signal)})

\* No line of the log holds one of the two messages of the software check.
OnlyReconfiguringOrCorruption ==
    /\ ~has_line(call.texts_before, <<"E", "r", "r", "o", "r", " ", "r", "e", "i", "n", "i", "t", "i", "a", "l", "i", "z", "i", "n", "g", " ", "f", "i", "l", "t", "e", "r", "s">>)
    /\ ~has_line(call.texts_before, <<"I", "m", "p", "o", "s", "s", "i", "b", "l", "e", " ", "t", "o", " ", "c", "o", "n", "v", "e", "r", "t", " ", "b", "e", "t", "w", "e", "e", "n", " ", "t", "h", "e", " ", "f", "o", "r", "m", "a", "t", "s">>)

C21_WitnessAccepted ==
    /\ SoftwareChecked /\ call.flag
    /\ should_retry_with_error_tolerance(RunClassified)

\* ---- C22
\* C22: stop() leaves no queued events of the stopped child behind: after
\* stop(c) the event queue is empty, and the poll() that follows returns the
\* recorded code c.
C22_StopClearsQueue ==
    /\ lastOp.op = "stop" => mon.output_queue = <<>>
    /\ (lastOp.op = "poll" /\ prevOp.op = "stop") => ret = CodeEvent(prevOp.code)

\* ---- C25
\* The last check_job_status call got the launch-failure sentinel.
LaunchFailureSeen == call.made /\ call.got = GotCode(127)

\* The call ended the transcode with a failure: no job, 'ERR', done.
FinalizedAsFailure ==
    /\ call.started = "none"
    /\ njobs = call.njobs_before
    /\ job = None
    /\ result.next_job = "none"
    /\ result.text = "ERR"
    /\ result.done

\* C25: a launch failure is never retried.  When the terminal code of a job
\* is 127 because its child could not be started, check_job_status starts
\* no new job and returns done with status 'ERR', on every tier; the Run of
\* such a job holds the code 127 and no text.
C25_LaunchFailureNotRetried ==
    LaunchFailureSeen =>
        /\ FinalizedAsFailure
        /\ call.run.return_code = Some(127)
        /\ call.run.texts = <<>>

\* The launch of a tolerant retry failed, after an initial job that had
\* failed with a tolerant-eligible log.
C25_Witness ==
    /\ LaunchFailureSeen
    /\ call.job.is_retry /\ ~call.job.is_software_fallback
    /\ tiers = <<"initial", "tolerant">>
    /\ should_retry_with_error_tolerance(vid_runs[1])
    /\ result.done

\* ---- C30
\* The stall branch was taken by the last call.
StallDeclared == call.made /\ call.got = GotCode(STALL_CODE) /\ call.polled = "none"

\* C30: a stall is terminal for the job.  When get_job_progress returns the
\* stall sentinel 254, check_job_status finalizes the job (no next job, done,
\* 'ERR') and starts no retry, whatever text the Run captured before the
\* stall.
C30_StallIsTerminal ==
    (call.made /\ call.got = GotCode(STALL_CODE)) => FinalizedAsFailure

\* ---- C27
\* C27: a stall is declared only for genuine silence.  When get_job_progress
\* takes the stall branch, the child has written nothing for longer than
\* progress_secs_max, and no event read from the child is waiting in the
\* monitor's queue.
C27_StallOnlyAfterSilence ==
    StallDeclared =>
        /\ call.idle_written > ProgressSecsMax
        /\ mon.output_queue = <<>>

\* ---- C26
\* The string the main step of the last get_job_progress call worked on.
StringEvent == call.made /\ call.polled = "line"

LastEvent == call.events[Len(call.events)]

C26_WitnessLogLine ==
    /\ StringEvent
    /\ LastEvent = <<"a", " ", "f", "r", "a", "m", "e", "=", "1", " ", "b">>
    /\ call.got = GotNone
    /\ now >= THROTTLE
    /\ handler.progress_line_mono = now

\* ---- C28
IsLogLine(e) == ~startswith(e, PROGRESS_PREFIX)

StallMarker == IF StallDeclared THEN << <<"P", "R", "O", "G", "R", "E", "S", "S", " ", "T", "I", "M", "E", "O", "U", "T">> >> ELSE <<>>

\* C28: no log line is lost or duplicated.  Every string event a
\* get_job_progress call gets from the monitor that is not a progress string
\* is appended once to the current Run's text, in the order of emission,
\* whether the backlog drain or the main step consumed it, and no progress
\* string is appended.
C28_LogLinesAppendedOnce ==
    call.made =>
        call.run.texts
            = call.texts_before \o SelectSeq(call.events, IsLogLine) \o StallMarker

\* The events of the last call that the code appends: the log lines among
\* them, but the one the main step worked on only if the progress pattern
\* does not match it.
AppendedEvents ==
    LET n == Len(call.events)
    IN  IF StringEvent /\ PROGRESS_RE_search(call.events[n]).matched
        THEN SelectSeq(SubSeq(call.events, 1, n - 1), IsLogLine)
        ELSE SelectSeq(call.events, IsLogLine)

\* What holds instead: log lines are appended once and in order, except a
\* log line that the main step works on and that the progress pattern
\* matches.
C28_UnmatchedLogLinesAppendedOnce ==
    call.made =>
        call.run.texts = call.texts_before \o AppendedEvents \o StallMarker

\* ---- C29
\* finish_transcode_job was called for an attempt that ended with a non-zero
\* exit code.
FinishedFailedAttempt ==
    call.made /\ call.op = "finish" /\ vid_runs[1].return_code # Some(0)

\* The Run's text after the call is the text before it and a CORRUPT VIDEO
\* line with the total severity and the event count of that text.
CorruptionReported ==
    /\ Len(vid_runs[1].texts) = Len(call.texts_before) + 1
    /\ SubSeq(vid_runs[1].texts, 1, Len(call.texts_before)) = call.texts_before
    /\ startswith(vid_runs[1].texts[Len(vid_runs[1].texts)],
                  <<"C", "O", "R", "R", "U", "P", "T", " ", "V", "I", "D", "E", "O", ":", " ", "T", "o", "t", "a", "l", " ", "S", "e", "v", "e", "r", "i", "t", "y", " ", "S", "c", "o", "r", "e", " ">>
                  \o str_int(severity(call.texts_before)) \o <<" ", "f", "r", "o", "m", " ">>
                  \o str_int(score_lines(call.texts_before, 0, 0, 0).corruption_events)
                  \o <<" ", "e", "v", "e", "n", "t", "s", ".">>)

\* C29: when a job is finished after an attempt with a non-zero exit code,
\* finish_transcode_job appends a CORRUPT VIDEO line with the total severity
\* and the event count to the Run's text if the text's corruption severity
\* is at least 30, and appends nothing if it is below 30.
C29_CorruptionReportedForFailedAttempt ==
    FinishedFailedAttempt =>
        IF severity(call.texts_before) >= SEVERITY_THRESHOLD
        THEN CorruptionReported
        ELSE vid_runs[1].texts = call.texts_before

\* What holds instead: the line is appended, for a severity of at least 30,
\* when the attempt is passed as a success and probe_cache.get returns
\* nothing, and nothing is appended in every other call; and as
\* ProbeCache.get returns a probe whenever it returns, no call appends it.
C29_ReportedOnlyForUnprobedSuccess ==
    FinishedFailedAttempt =>
        /\ IF /\ severity(call.texts_before) >= SEVERITY_THRESHOLD
              /\ call.success /\ call.probe = None /\ ~call.raised
           THEN CorruptionReported
           ELSE vid_runs[1].texts = call.texts_before
        /\ vid_runs[1].texts = call.texts_before

\* ---- C23
\* The last get_job_progress call on the second job met its child running
\* and its poll() returned no event.
PeerSawNoEvent == other.call.made /\ other.call.alive /\ other.call.polled = "none"

\* The main step of the last call on the second job worked on a string that
\* holds a frame count and a time.
PeerSawProgress ==
    /\ other.call.made /\ other.call.polled = "line"
    /\ PROGRESS_RE_search(other.call.events[Len(other.call.events)]).time # None

\* The stall detection and the rate limit of the second job, by that job's
\* own output and polls: a call that sees no event after more than
\* progress_secs_max without a line of this job returns 254, and a progress
\* string is rendered when no string of this job passed the rate limit
\* within the last 1.8 s.
PeerSupervisedByItsOwn ==
    /\ (PeerSawNoEvent /\ other.call.idle_seen > ProgressSecsMax)
          => other.call.got = GotCode(STALL_CODE)
    /\ (PeerSawProgress /\ other.call.since_passed >= THROTTLE)
          => other.call.got.kind = "progress"

\* C23: two live jobs polled in turn through the same JobHandler share no
\* supervision state: output consumed for the first job neither postpones
\* the stall detection of the second nor suppresses its progress updates,
\* and a stall of the first does not disable the stall detection of the
\* second.
C23_JobsSupervisedIndependently == PeerSupervisedByItsOwn

\* The same while the second job is the only one the JobHandler was given.
C23_IndependentWhenAlone == njobs = 0 => PeerSupervisedByItsOwn

\* ---- C24
\* C24: during batch_get_or_probe every store() and every merge of a probe
\* result into the table and the dirty counter runs under the cache lock:
\* a thread inside store() holds the lock, no two threads are inside store()
\* at once, and no thread merges while another is inside store().
C24_StoreAndMergeUnderLock ==
    /\ \A t \in InStore(cache) : cache.lock = Some(t)
    /\ Cardinality(InStore(cache)) <= 1
    /\ ~cache.torn

\* What holds: the caller's merges and the caller's store() calls run under
\* the lock.
C24_CallerHoldsLock ==
    cache.main.pc \in {"merge", "store", "release", "final_store", "final_release"}
        => cache.lock = Some(MAIN)

\* ---------------------------------------------------------------------
\* C31: in corruption scoring a line 'Last message repeated N times' adds N
\* times the weight matched by the line just before it, and nothing when
\* that line matched no corruption signal; a repeat line carries no weight
\* forward, so a second repeat line in a row, or a repeat line after an
\* unrelated line, adds 0.  Stated on the whole log: the total is the sum of
\* the lines' own weights plus, for every repeat line, N times the weight
\* of the line before it when that line is not itself a repeat line.
IsRepeatLine(line) == repeat_match(line) # None

WeightBefore(texts, i) ==
    IF i > 1 /\ ~IsRepeatLine(texts[i - 1])
    THEN line_score(CORRUPTION_SEVERITY, texts[i - 1])
    ELSE 0

RepeatAdds(texts, i) ==
    IF IsRepeatLine(texts[i]) THEN repeat_match(texts[i])[1] * WeightBefore(texts, i)
    ELSE 0

RECURSIVE ExpectedSeverity(_, _)
ExpectedSeverity(texts, i) ==
    IF i = 0 THEN 0
    ELSE ExpectedSeverity(texts, i - 1)
         + line_score(CORRUPTION_SEVERITY, texts[i]) + RepeatAdds(texts, i)

Scored == call.made /\ call.op = "elaborate" /\ call.scanned

C31_RepeatAddsPreviousWeightOnce ==
    Scored =>
        call.score.total_severity
            = ExpectedSeverity(call.texts_before, Len(call.texts_before))

\* A scored log with a signal line followed by two repeat lines: the first
\* adds twice the weight, the second adds nothing.
C31_Witness ==
    /\ Scored
    /\ Len(call.texts_before) >= 3
    /\ \E i \in 1..(Len(call.texts_before) - 2) :
          /\ line_score(CORRUPTION_SEVERITY, call.texts_before[i]) > 0
          /\ IsRepeatLine(call.texts_before[i + 1])
          /\ IsRepeatLine(call.texts_before[i + 2])
          /\ RepeatAdds(call.texts_before, i + 1) > 0
          /\ RepeatAdds(call.texts_before, i + 2) = 0

\* A scored log with a repeat line right after a line that matched nothing.
C31_WitnessAfterUnrelated ==
    /\ Scored
    /\ \E i \in 2..Len(call.texts_before) :
          /\ IsRepeatLine(call.texts_before[i])
          /\ ~IsRepeatLine(call.texts_before[i - 1])
          /\ line_score(CORRUPTION_SEVERITY, call.texts_before[i - 1]) = 0

\* ---------------------------------------------------------------------
\* C32: in the scoring scenario (three 'corrupt decoded frame' lines, then
\* 'Last message repeated 2 times') the event counter is four before the
\* repeat multiplier and six after it: the reported event count is six.
C32_ScenarioSixEvents ==
    ScenarioScored =>
        /\ call.score.corruption_events = 6
        /\ \E rc \in {None, vid_runs[1].return_code} :
              vid_runs[1].texts[Len(vid_runs[1].texts)]
                 = corrupt_video_line(Score(50, 6), rc)

\* The three signal lines alone, scored.
ThreeFramesScored ==
    Scored /\ call.texts_before = SubSeq(ScenarioLog, 1, 3)

\* What the code counts: one event per signal line, which makes three, and
\* the repeat line adds its multiplier 2 and is no event itself: five.
C32_ScenarioFiveEvents ==
    /\ ThreeFramesScored => call.score.corruption_events = 3
    /\ ScenarioScored =>
          /\ call.score.corruption_events = 5
          /\ \E rc \in {None, vid_runs[1].return_code} :
                vid_runs[1].texts[Len(vid_runs[1].texts)]
                   = corrupt_video_line(Score(50, 5), rc)

C32_Witness ==
    /\ ScenarioScored
    /\ call.score.corruption_events = 5
    /\ Len(vid_runs[1].texts) = 5

\* ---------------------------------------------------------------------
\* C36: the terminal status of an attempt is stable across stop(): once the
\* child has exited on its own and poll() has reported its exit code c, a
\* stop() called without a code (by the caller or by the monitor's
\* destructor) leaves the recorded code at c, so that poll() still returns c.
ExitReported ==
    /\ lastOp.op = "poll"
    /\ ret.kind = "code"
    /\ ~child.alive
    /\ child.status = Some(ret.code)
    /\ ret.code \in ExitCodes
    /\ mon.process = None
    /\ mon.return_code = Some(ret.code)

C36_StopKeepsReportedCode ==
    [][(ExitReported /\ lastOp' = Op("stop", 255))
          => mon'.return_code = mon.return_code]_vars

\* ---------------------------------------------------------------------
\* C37: a rejected start() changes nothing: when start() fails because the
\* monitor already holds a process, every field of the monitor (process,
\* registered temp file, carry-over, queue, accumulator, recorded code) is
\* what it was before the call, so that a later stop() removes the temp
\* file registered by the original start.
C37_RejectedStartChangesNothing ==
    RejectedStart => mon = prevMon

\* ---------------------------------------------------------------------
\* C35: no child output is lost at exit under any interleaving of the
\* child's last writes and its exit with poll()'s read and poll()'s exit
\* check: by the time poll() first returns the exit code, every byte the
\* child wrote before exiting has been read (none is left in the pipe) and
\* hence delivered as a log line or a progress snapshot.
RECURSIVE BytesRead(_)
BytesRead(ss) == IF ss = <<>> THEN <<>> ELSE Head(ss) \o BytesRead(Tail(ss))

C35_NoOutputLostAtExit ==
    (ret.kind = "code" /\ child.status # None) =>
        /\ child.pipe = <<>>
        /\ BytesRead(segs) = child.stream

\* ---------------------------------------------------------------------
\* C39: an accepted output is never deleted by the supervisor: after a job
\* has completed with exit code 0 and finish_transcode_job has kept its
\* output (in sample mode the temp file itself, which the call leaves where
\* it is and records as vid.basename1), no later stop() on the finished
\* job's monitor, called directly or by its destructor, removes that file.
OutputAccepted ==
    /\ ExitReported
    /\ ret.code = 0
    /\ mon.temp_file # None
    /\ mon.temp_file[1] \in files

C39_AcceptedOutputNeverDeleted ==
    [][(OutputAccepted /\ lastOp'.op = "stop") => files' = files]_vars

\* ---------------------------------------------------------------------
\* The last finish_transcode_job call asked the probe cache for a path
\* without a valid entry, and probing the file failed (file missing, probe
\* tool error or undecodable output).
ProbeFailed ==
    /\ call.made /\ call.op = "finish" /\ call.success
    /\ (TEMP_FILE \notin call.cache_before.cache_data \/ call.file_state # "same")
    /\ (call.file_state = "missing" \/ ~call.probe_ok)

\* C40: probe failure is a value, not an exception: for a path without a
\* valid cache entry whose probe fails, ProbeCache.get returns None without
\* raising and leaves the table without an entry for the path, and
\* finish_transcode_job takes its 'output could not be probed' branch,
\* which marks the job failed.
C40_ProbeFailureIsValue ==
    ProbeFailed =>
        /\ ~call.raised
        /\ call.probe = None
        /\ TEMP_FILE \notin cache.cache_data
        /\ ~call.finished

\* What happens instead: get raises, the table has no entry for the path,
\* and finish_transcode_job is left by the exception before it has changed
\* the Run; get returns a probe in every call it returns from.
C40_ProbeFailureRaises ==
    /\ ProbeFailed =>
          /\ call.raised
          /\ TEMP_FILE \notin cache.cache_data
          /\ vid_runs[1].texts = call.texts_before
    /\ (call.made /\ call.op = "finish" /\ call.success /\ ~call.raised)
          => call.probe # None

\* ---------------------------------------------------------------------
\* A start_transcode_job call in the step: of the initial attempt, or of a
\* retry.
InitialStarted == njobs' = njobs + 1 /\ Len(tiers') = 1
RetryStarted == njobs' = njobs + 1 /\ Len(tiers') > 1

\* The Runs before the last one are what they were.
EarlierRunsKept ==
    \A i \in 1..(Len(vid_runs) - 1) : vid_runs'[i] = vid_runs[i]

\* C34: Vid.runs records one Run per attempt: starting the initial attempt
\* resets the sequence to exactly one, new Run; each retry appends exactly
\* one Run and leaves all earlier Runs (text, exit code, description,
\* command) as they were, the Run of the attempt that just ended being as
\* the call's progress step left it; and no other step changes the number
\* of Runs or a Run before the last.  So the length of Vid.runs is 1 + the
\* number of retries started and never exceeds 3.
C34_OneRunPerAttempt ==
    /\ [](Len(vid_runs) = Len(tiers) /\ Len(vid_runs) <= 3)
    /\ [][/\ InitialStarted =>
                /\ Len(vid_runs') = 1
                /\ vid_runs'[1].texts = <<>>
                /\ vid_runs'[1].return_code = None
          /\ RetryStarted =>
                /\ Len(vid_runs') = Len(vid_runs) + 1
                /\ EarlierRunsKept
                /\ vid_runs'[Len(vid_runs)] = call'.run
                /\ call'.run.descr = vid_runs[Len(vid_runs)].descr
                /\ call'.run.command = vid_runs[Len(vid_runs)].command
                /\ vid_runs'[Len(vid_runs')].texts = <<>>
                /\ vid_runs'[Len(vid_runs')].return_code = None
          /\ njobs' = njobs =>
                /\ Len(vid_runs') = Len(vid_runs)
                /\ EarlierRunsKept]_vars

\* Three attempts, each with its own Run: the first two hold their text and
\* exit code, the third is the software retry's.
C34_Witness ==
    /\ Len(vid_runs) = 3
    /\ vid_runs[1].texts # <<>> /\ vid_runs[1].return_code = Some(1)
    /\ vid_runs[1].descr = "initial run"
    /\ vid_runs[2].texts # <<>> /\ vid_runs[2].return_code = Some(1)
    /\ vid_runs[2].descr = "redo w err tolerance"
    /\ vid_runs[3].descr = "retry w S/W convert"
    /\ vid_runs[3].command # vid_runs[2].command

\* A second transcode of the Vid was started after the first had ended with
\* text in its Run: one new Run.
C34_WitnessReset ==
    /\ njobs = 2 /\ tiers = <<"initial">> /\ job # None
    /\ vid_runs = <<[NewRun("initial run") EXCEPT !.command = ffmpeg_cmd(FALSE, FALSE)]>>
    /\ call = NoCall

\* ---------------------------------------------------------------------
\* The poll() calls of a get_job_progress call: one per string it polled,
\* and the last one when that returned no string.
Polls(c) == Len(c.events) + (IF c.polled = "line" THEN 0 ELSE 1)

\* The events the one read of a call puts into the queue: the lines and
\* snapshots of the chunk and, when the child is seen exited, the carry-over
\* flushed as a line.  A call that finds an event queued does not read.
ProducedByRead(m, chunk, exited) ==
    IF ~polls_child(m) THEN 0
    ELSE LET m1 == read_chunk(m, chunk)
         IN  Len(m1.output_queue)
             + (IF exited /\ m1.partial_line # <<>>
                   /\ strip(decode(m1.partial_line)) # <<>> THEN 1 ELSE 0)

\* A get_job_progress call in the step.
ProgressCalled ==
    /\ call'.made /\ now' = now /\ njobs' = njobs
    /\ <<mon, handler, vid_runs, call>>' # <<mon, handler, vid_runs, call>>

\* C38: every get_job_progress call ends after finitely many polls: the
\* backlog drain and the main loop (which polls again only after skipping a
\* progress string while more events are queued) remove one queued event
\* for each string polled, so the events left in the queue are those at
\* entry and those of the one read less the strings polled, and the call
\* makes at most (queue length at entry + events of the read + 1) polls.
C38_BoundedPolls ==
    [][ProgressCalled =>
          \E n \in {ProducedByRead(mon, child.pipe, ~call'.alive)} :
             /\ Polls(call') <= Len(mon.output_queue) + n + 1
             /\ Len(mon'.output_queue) + Len(call'.events)
                   = Len(mon.output_queue) + n]_vars

\* A call whose read met the child exited and two snapshots: the main loop
\* skipped the first and polled again.
C38_Witness ==
    /\ call.made /\ call.polled = "line"
    /\ Len(call.events) = 2
    /\ startswith(call.events[1], PROGRESS_PREFIX)
    /\ startswith(call.events[2], PROGRESS_PREFIX)
    /\ mon.process # None /\ mon.return_code # None
    /\ mon.output_queue = <<>>

\* A call that met two lines queued: the drain discarded the first, the
\* main loop polled the second.
C38_WitnessDrain ==
    /\ call.made /\ call.polled = "line"
    /\ Len(call.events) = 2
    /\ ~startswith(call.events[1], PROGRESS_PREFIX)
    /\ mon.return_code = None
    /\ mon.output_queue = <<>>

\* ---------------------------------------------------------------------
\* The main step of the last call worked on a progress string less than
\* 1.8 s after the job's start or its last formatted progress line.
ThrottledProgress ==
    /\ StringEvent
    /\ startswith(LastEvent, PROGRESS_PREFIX)
    /\ call.since_rendered < THROTTLE

\* C33: progress rendering is rate limited without affecting the stall
\* detection.  A formatted progress line is returned no sooner than 1.8 s
\* after the job's start and after the formatted line before it; a progress
\* string that arrives sooner is answered with 'no update yet' and sets the
\* last-output clock to the time of the call all the same; and a stall is
\* declared only when more than progress_secs_max has passed since a string,
\* rate limited or not, was last consumed.
C33_RateLimitKeepsStallClock ==
    call.made =>
        /\ call.got.kind = "progress" => call.since_rendered >= THROTTLE
        /\ ThrottledProgress =>
              /\ call.got = GotNone
              /\ call.h.prev_ffmpeg_out_mono = call.at
        /\ StringEvent => call.got # GotCode(STALL_CODE)
        /\ StallDeclared => call.idle_seen > ProgressSecsMax

\* A progress string was consumed within 1.8 s of the job's start.
C33_Witness ==
    /\ ThrottledProgress
    /\ call.got = GotNone
    /\ call.at > 0

\* A second formatted line for the job, 2.2 s after the first.
C33_WitnessSecondLine ==
    /\ call.made /\ call.got.kind = "progress"
    /\ call.at - call.since_rendered > 0
====
